---- MODULE Spec2Model ----
(***************************************************************************)
(* A model of the FUSE session core of fuse-async / polyfuse:              *)
(*   - the reply encoder (session/reply.rs: send_msg, ReplyData),          *)
(*   - the session dispatcher and its correlation tables (session.rs),     *)
(*   - the INIT handshake (Session::start),                                *)
(*   - the shared-descriptor lock of Channel (fuse-async-channel/tokio.rs),*)
(*   - the server loop, its spawned tasks and its shutdown signal          *)
(*     (server.rs), and the mount of a Connection (conn.rs).               *)
(* Each part has its own specification over the same variables; the parts  *)
(* a specification does not exercise stay at their initial values.         *)
(***************************************************************************)
EXTENDS Integers, Sequences, FiniteSets, TLC

VARIABLES
    \* ---- reply encoder (SpecMsg) ----
    call,            \* the last encoder call: its name and arguments
    dest,            \* the bytes the writer of that call received
    ret,             \* what the call returned
    \* ---- session dispatcher (Spec) ----
    exited,          \* SessionState.exited
    remains,         \* SessionState.remains: unique -> oneshot sender
    interrupted,     \* SessionState.interrupted
    notify_unique,   \* Session.notify_unique
    notify_remains,  \* Session.notify_remains: notify unique -> oneshot sender
    tasks,           \* the dispatch tasks spawned by the server loop
    chans,           \* the oneshot channels created by enable_interrupt
    retrs,           \* the callers of notify_retrieve
    env,             \* the environment: the kernel's next unique, the faults
                     \* and handler calls spent so far
    history,         \* what has happened so far, for stating the properties
    \* ---- INIT handshake (SpecStart) ----
    start,           \* the state of Session::start
    server,          \* the main loop of Server::run_until
    signals,         \* the future of default_shutdown_signal
    \* ---- Channel lock (SpecChan) ----
    semaphore,       \* Inner.semaphore: the permits available
    clones,          \* the Channel clones sharing one Inner
    \* ---- Connection (SpecConn) ----
    mount            \* the mount, its Connections, the calls of the helper

msgvars   == <<call, dest, ret>>
sessvars  == <<exited, remains, interrupted, notify_unique, notify_remains,
               tasks, chans, retrs, env, history>>
startvars == <<start, server, signals>>
chanvars  == <<semaphore, clones, mount>>
vars      == <<msgvars, sessvars, startvars, chanvars>>

None == "none"

(***************************************************************************)
(* errno values and sizes used by the code.                                *)
(***************************************************************************)
ENOENT  == 2
EIO     == 5
ERANGE  == 34
ENOSYS  == 38
EPROTO  == 71
ENODEV  == 19
HeaderSize == 16          \* mem::size_of::<fuse_out_header>()

(***************************************************************************)
(* Wide naturals.  usize and u32 values do not fit TLC's integers, so a    *)
(* length is kept as two base-65536 limbs <<hi, lo>>, value hi*65536 + lo. *)
(* A u32 is a wide natural with hi < 65536.                                *)
(***************************************************************************)
Limb == 256 * 256

W(n) == <<n \div Limb, n % Limb>>

WAdd(a, b) ==
    LET lo == a[2] + b[2]
    IN  <<a[1] + b[1] + (lo \div Limb), lo % Limb>>

WLe(a, b) == a[1] < b[1] \/ (a[1] = b[1] /\ a[2] <= b[2])

\* u32::try_from(x).is_ok()
FitsU32(a) == a[1] < Limb

\* x as u32: the low 32 bits
AsU32(a) == <<a[1] % Limb, a[2]>>

(***************************************************************************)
(* Byte strings.  An element is a run of equal bytes: a single byte has    *)
(* run <<0, 1>>; a buffer too large to enumerate is one run of zero bytes. *)
(***************************************************************************)
One(b) == [byte |-> b, run |-> <<0, 1>>]

Bytes(s) == [i \in DOMAIN s |-> One(s[i])]

\* a slice of h * 65536 zero bytes, such as vec![0u8; h << 16]
Zeros(h) == <<[byte |-> 0, run |-> <<h, 0>>]>>

RECURSIVE SliceLen(_)
SliceLen(s) ==
    IF s = <<>> THEN <<0, 0>>
    ELSE IF Len(s) = 1 THEN s[1].run
    ELSE LET m == Len(s) \div 2
         IN  WAdd(SliceLen(SubSeq(s, 1, m)), SliceLen(SubSeq(s, m + 1, Len(s))))

RECURSIVE Concat(_)
Concat(data) ==
    IF data = <<>> THEN <<>>
    ELSE Head(data) \o Concat(Tail(data))

\* data.iter().map(|t| t.len()).sum::<usize>()
RECURSIVE SumLen(_)
SumLen(data) ==
    IF data = <<>> THEN <<0, 0>>
    ELSE WAdd(SliceLen(Head(data)), SumLen(Tail(data)))

(***************************************************************************)
(* Native (little-endian) layout of the header fields.                     *)
(***************************************************************************)
\* a u32 as 4 bytes
U32Bytes(a) == <<a[2] % 256, a[2] \div 256, a[1] % 256, a[1] \div 256>>

\* an i32 as the u32 with the same bits (two's complement)
I32Bits(e) ==
    IF e >= 0 THEN W(e)
    ELSE LET m  == 0 - e
             lo == (Limb - (m % Limb)) % Limb
             br == IF m % Limb = 0 THEN 0 ELSE 1
         IN  <<Limb - (m \div Limb) - br, lo>>

\* a u64 as 8 bytes; the uniques of the model are below 2^31
U64Bytes(u) ==
    <<u % 256, (u \div 256) % 256, (u \div 65536) % 256, (u \div 16777216) % 256,
      0, 0, 0, 0>>

\* fuse_out_header { len, error, unique }.as_bytes()
HeaderBytes(len, error, unique) ==
    Bytes(U32Bytes(len) \o U32Bytes(I32Bits(error)) \o U64Bytes(unique))

(***************************************************************************)
(* The reply encoder: session/reply.rs and the Context reply methods.      *)
(* io_ok is the outcome of the writer's poll_write_vectored: the endpoints *)
(* of this repository (a Vec in the tests, writev on the device) take the  *)
(* whole vector or fail.                                                   *)
(***************************************************************************)
\* a bug send_msg could have: the length field counts the payload only
send_msg_len_payload_only(unique, error, data, io_ok) ==
    LET data_len == SumLen(data)
        len      == WAdd(W(HeaderSize), data_len)
    IN  IF ~FitsU32(len) THEN [ret |-> "InvalidData", out |-> <<>>]
        ELSE IF ~io_ok THEN [ret |-> "IoError", out |-> <<>>]
        ELSE [ret |-> "Ok",
              out |-> HeaderBytes(data_len, error, unique) \o Concat(data)]

\* a bug send_msg could have: the length is cast (`as u32`) and not checked
send_msg_len_unchecked(unique, error, data, io_ok) ==
    LET data_len == SumLen(data)
        len      == AsU32(WAdd(W(HeaderSize), data_len))
    IN  IF ~io_ok THEN [ret |-> "IoError", out |-> <<>>]
        ELSE [ret |-> "Ok",
              out |-> HeaderBytes(len, error, unique) \o Concat(data)]

\* a bug send_msg could have: the header and the payload go out in two
\* write calls
send_msg_writes_split(unique, error, data, io_ok) ==
    LET len == WAdd(W(HeaderSize), SumLen(data))
    IN  IF ~FitsU32(len) THEN <<>>
        ELSE IF ~io_ok THEN <<[vec |-> <<HeaderBytes(len, error, unique)>>,
                               ok |-> FALSE]>>
        ELSE <<[vec |-> <<HeaderBytes(len, error, unique)>>, ok |-> TRUE],
               [vec |-> data, ok |-> TRUE]>>

\* the poll_write_vectored calls send_msg makes on its writer, each with the
\* slice vector it passes: one call, of the header followed by the payload
\* slices (a call that returns Pending is repeated with the same vector and
\* writes nothing)
send_msg_writes(unique, error, data, io_ok) ==
    LET len == WAdd(W(HeaderSize), SumLen(data))
    IN  IF ~FitsU32(len) THEN <<>>
        ELSE <<[vec |-> <<HeaderBytes(len, error, unique)>> \o data,
                ok |-> io_ok]>>

\* send_msg: the checked length, the header, one vectored write
send_msg(unique, error, data, io_ok) ==
    LET data_len == SumLen(data)
        len      == WAdd(W(HeaderSize), data_len)
    IN  IF ~FitsU32(len) THEN [ret |-> "InvalidData", out |-> <<>>]
        ELSE IF ~io_ok THEN [ret |-> "IoError", out |-> <<>>]
        ELSE [ret |-> "Ok",
              out |-> HeaderBytes(len, error, unique) \o Concat(data)]

\* Context::reply_vectored (the writer of a Context is always Some)
reply_vectored(unique, data, io_ok) == send_msg(unique, 0, data, io_ok)

\* Context::reply
reply(unique, data, io_ok) == reply_vectored(unique, <<data>>, io_ok)

\* a bug reply_err could have: the errno is not negated
reply_err_not_negated(unique, error, io_ok) ==
    send_msg(unique, error, <<>>, io_ok)

\* Context::reply_err
reply_err(unique, error, io_ok) == send_msg(unique, 0 - error, <<>>, io_ok)

\* data.iter().map(|t| t.len() as u32).sum(): the u32 sum and whether an
\* addition overflowed
RECURSIVE SumU32(_)
SumU32(data) ==
    IF data = <<>> THEN [val |-> <<0, 0>>, ovf |-> FALSE]
    ELSE LET rest == SumU32(Tail(data))
             s    == WAdd(AsU32(SliceLen(Head(data))), rest.val)
         IN  [val |-> AsU32(s), ovf |-> rest.ovf \/ ~FitsU32(s)]

\* ReplyData::data_vectored.  An overflowing u32 sum panics in a build with
\* overflow checks and wraps in one without.
data_vectored(unique, size, data, io_ok, overflow_checks) ==
    LET len == SumU32(data)
    IN  IF len.ovf /\ overflow_checks THEN [ret |-> "panic", out |-> <<>>]
        ELSE IF WLe(len.val, size) THEN reply_vectored(unique, data, io_ok)
        ELSE reply_err(unique, ERANGE, io_ok)

\* ReplyData::data
data(unique, size, d, io_ok, overflow_checks) ==
    data_vectored(unique, size, <<d>>, io_ok, overflow_checks)

(***************************************************************************)
(* SpecMsg: the encoder called on a fresh writer with inputs drawn from    *)
(* small sets.                                                             *)
(***************************************************************************)
MaxSlices == 2

MsgUniques == {26, 42}
MsgErrors  == {0, 4, 0 - ENOSYS}
MsgErrnos  == {EIO, ERANGE, ENOSYS}
\* "", "he", "llo", 64 KiB, 2^32 - 64 KiB, 2^32 - 19 and 2^32 bytes
SliceSet   == {<<>>, Bytes(<<104, 101>>), Bytes(<<108, 108, 111>>),
               Zeros(1), Zeros(Limb - 1),
               <<[byte |-> 0, run |-> <<Limb - 1, Limb - 19>>]>>, Zeros(Limb)}
\* kernel-requested sizes: 0, 2, 4, 4096, 128 KiB
SizeSet    == {<<0, 0>>, <<0, 2>>, <<0, 4>>, <<0, 4096>>, <<2, 0>>}

DataLists == UNION {[1..n -> SliceSet] : n \in 0..MaxSlices}

NoCall == [op |-> "none"]

MsgInit ==
    /\ call = NoCall
    /\ dest = <<>>
    /\ ret = None

CallSendMsg ==
    \E u \in MsgUniques, e \in MsgErrors, d \in DataLists, ok \in BOOLEAN :
        LET r == send_msg(u, e, d, ok)
        IN  /\ call = NoCall
            /\ call' = [op |-> "send_msg", unique |-> u, error |-> e,
                        data |-> d, io_ok |-> ok,
                        writes |-> send_msg_writes(u, e, d, ok)]
            /\ dest' = r.out
            /\ ret' = r.ret
            /\ UNCHANGED <<sessvars, startvars, chanvars>>

CallReplyVectored ==
    \E u \in MsgUniques, d \in DataLists, ok \in BOOLEAN :
        LET r == reply_vectored(u, d, ok)
        IN  /\ call = NoCall
            /\ call' = [op |-> "reply_vectored", unique |-> u, error |-> 0,
                        data |-> d, io_ok |-> ok]
            /\ dest' = r.out
            /\ ret' = r.ret
            /\ UNCHANGED <<sessvars, startvars, chanvars>>

CallReplyErr ==
    \E u \in MsgUniques, e \in MsgErrnos, ok \in BOOLEAN :
        LET r == reply_err(u, e, ok)
        IN  /\ call = NoCall
            /\ call' = [op |-> "reply_err", unique |-> u, error |-> e,
                        io_ok |-> ok]
            /\ dest' = r.out
            /\ ret' = r.ret
            /\ UNCHANGED <<sessvars, startvars, chanvars>>

CallDataVectored ==
    \E u \in MsgUniques, sz \in SizeSet, d \in DataLists,
       ok \in BOOLEAN, oc \in BOOLEAN :
        LET r == data_vectored(u, sz, d, ok, oc)
        IN  /\ call = NoCall
            /\ call' = [op |-> "data_vectored", unique |-> u, size |-> sz,
                        data |-> d, io_ok |-> ok, overflow_checks |-> oc]
            /\ dest' = r.out
            /\ ret' = r.ret
            /\ UNCHANGED <<sessvars, startvars, chanvars>>

CallData ==
    \E u \in MsgUniques, sz \in SizeSet, d \in SliceSet,
       ok \in BOOLEAN, oc \in BOOLEAN :
        LET r == data(u, sz, d, ok, oc)
        IN  /\ call = NoCall
            /\ call' = [op |-> "data", unique |-> u, size |-> sz,
                        data |-> <<d>>, io_ok |-> ok, overflow_checks |-> oc]
            /\ dest' = r.out
            /\ ret' = r.ret
            /\ UNCHANGED <<sessvars, startvars, chanvars>>

\* the next call gets a writer of its own (a new Vec, as in the tests)
NewWriter ==
    /\ call # NoCall
    /\ call' = NoCall
    /\ dest' = <<>>
    /\ ret' = None
    /\ UNCHANGED <<sessvars, startvars, chanvars>>

MsgNext ==
    \/ CallSendMsg
    \/ CallReplyVectored
    \/ CallReplyErr
    \/ CallDataVectored
    \/ CallData
    \/ NewWriter

(***************************************************************************)
(* The session dispatcher: Session::process, the correlation tables, the   *)
(* notifier's retrieve, and the user handler as the environment.           *)
(***************************************************************************)
MaxFrames     == 3     \* frames the server loop receives and dispatches
MaxErrReplies == 1     \* Context::reply_err calls made by the handlers
MaxChans      == 1     \* on_interrupt() calls made by the handlers
MaxRetrieves  == 2     \* notify_retrieve calls
MaxIoFailures == 1     \* writes the device fails

FUSE_NOTIFY_RETRIEVE == 5

OpKinds      == {"Lookup"}                  \* handled through run_op!
ForgetKinds  == {"Forget", "BatchForget"}   \* handler called, no reply handle
LocalKinds   == {"Init", "Destroy", "Unknown"}
RequestKinds == OpKinds \cup ForgetKinds \cup LocalKinds
Kinds        == RequestKinds \cup {"Interrupt", "NotifyReply"}

\* NOTIFY_REPLY frames: arg.offset and the payload
NotifyArgs  == {[offset |-> 0, data |-> Bytes(<<7>>)],
                [offset |-> 8, data |-> Bytes(<<9>>)]}
\* what a handler hands to its typed reply: the bytes of a reply struct
EntryOut    == Bytes(<<1, 2>>)
HandlerErrno == ENOENT

NoGot == <<>>

\* fuse_forget_one { nodeid, nlookup }
forget_one(nodeid, nlookup) == [nodeid |-> nodeid, nlookup |-> nlookup]

\* the frames of FORGET (header.nodeid, arg.nlookup) and BATCH_FORGET (the
\* trailing array) the kernel sends
ForgetFrames(kind) ==
    IF kind = "Forget"
    THEN {[nodeid |-> 2, arg |-> [nlookup |-> 1]],
          [nodeid |-> 3, arg |-> [nlookup |-> 4]]}
    ELSE IF kind = "BatchForget"
    THEN {[nodeid |-> 0, arg |-> <<forget_one(2, 1)>>],
          [nodeid |-> 0, arg |-> <<forget_one(2, 1), forget_one(3, 4)>>],
          [nodeid |-> 0, arg |-> <<forget_one(3, 2), forget_one(2, 1),
                                   forget_one(3, 2)>>]}
    ELSE {[nodeid |-> 1, arg |-> <<>>]}

\* a dispatch task for one received frame: the header fields, the parsed
\* argument of its RequestKind, and the progress of Session::process
Task(kind, unique, au, off, d) ==
    [pc |-> "check", kind |-> kind, unique |-> unique,
     arg_unique |-> au, offset |-> off, data |-> d,
     nodeid |-> (CHOOSE f \in ForgetFrames(kind) : TRUE).nodeid,
     arg |-> (CHOOSE f \in ForgetFrames(kind) : TRUE).arg,
     op |-> [name |-> "none"],
     handle |-> IF kind \in OpKinds THEN "unused" ELSE "none",
     nerr |-> 0, invoked |-> 0, frames |-> <<>>, io_failed |-> FALSE,
     result |-> "running", intr_before |-> FALSE, slot_owner |-> 0,
     finished_at |-> 0]

SessInit ==
    /\ exited = FALSE
    /\ remains = <<>>
    /\ interrupted = {}
    /\ notify_unique = 0
    /\ notify_remains = <<>>
    /\ tasks = <<>>
    /\ chans = <<>>
    /\ retrs = [r \in 1..MaxRetrieves |->
                  [pc |-> "idle", nu |-> 0, seq |-> 0, got |-> NoGot,
                   frames |-> <<>>, canceled |-> FALSE]]
    /\ env = [next |-> 1, io_failures |-> 0, err_replies |-> 0]
    /\ history = [interrupts |-> {}, allocs |-> 0, late |-> {}]

\* HashMap::remove and HashMap::insert on a table kept as a function
MapRemove(m, k) == [x \in (DOMAIN m) \ {k} |-> m[x]]
MapInsert(m, k, v) == [x \in (DOMAIN m) \cup {k} |-> IF x = k THEN v ELSE m[x]]

\* the outcomes the device allows for the next write
IoOutcomes == IF env.io_failures < MaxIoFailures THEN {TRUE, FALSE} ELSE {TRUE}
IoCount(r, nerr) ==
    [env EXCEPT !.io_failures = IF r.ret = "IoError" THEN @ + 1 ELSE @,
                !.err_replies = @ + nerr]

\* the frames a task or a notifier call has written, after a send
Wrote(frames, r) == IF r.ret = "Ok" THEN Append(frames, r.out) ELSE frames

----------------------------------------------------------------------------
\* Server::run_until: one frame is received and a dispatch task is spawned.
\* The kernel numbers its requests; an INTERRUPT names an earlier request,
\* a NOTIFY_REPLY carries a notify unique in its header.
ReceiveOp ==
    \E kind \in OpKinds :
        /\ Len(tasks) < MaxFrames
        /\ tasks' = Append(tasks, Task(kind, env.next, 0, 0, <<>>))
        /\ env' = [env EXCEPT !.next = @ + 1]
        /\ UNCHANGED <<exited, remains, interrupted, notify_unique,
                       notify_remains, chans, retrs, history>>
        /\ UNCHANGED <<msgvars, startvars, chanvars>>

ReceiveRequest ==
    \E kind \in ForgetKinds \cup LocalKinds :
        /\ Len(tasks) < MaxFrames
        /\ tasks' = Append(tasks, Task(kind, env.next, 0, 0, <<>>))
        /\ env' = [env EXCEPT !.next = @ + 1]
        /\ UNCHANGED <<exited, remains, interrupted, notify_unique,
                       notify_remains, chans, retrs, history>>
        /\ UNCHANGED <<msgvars, startvars, chanvars>>

\* a FORGET or BATCH_FORGET frame with any of the contents above
ReceiveForget ==
    \E kind \in ForgetKinds : \E f \in ForgetFrames(kind) :
        /\ Len(tasks) < MaxFrames
        /\ tasks' = Append(tasks, [Task(kind, env.next, 0, 0, <<>>) EXCEPT
                                      !.nodeid = f.nodeid, !.arg = f.arg])
        /\ env' = [env EXCEPT !.next = @ + 1]
        /\ UNCHANGED <<exited, remains, interrupted, notify_unique,
                       notify_remains, chans, retrs, history>>
        /\ UNCHANGED <<msgvars, startvars, chanvars>>

ReceiveInterrupt ==
    \E u \in 1..(env.next - 1) :
        /\ Len(tasks) < MaxFrames
        /\ tasks' = Append(tasks, Task("Interrupt", env.next, u, 0, <<>>))
        /\ env' = [env EXCEPT !.next = @ + 1]
        /\ UNCHANGED <<exited, remains, interrupted, notify_unique,
                       notify_remains, chans, retrs, history>>
        /\ UNCHANGED <<msgvars, startvars, chanvars>>

ReceiveNotifyReply ==
    \E n \in 0..(MaxRetrieves - 1), a \in NotifyArgs :
        /\ Len(tasks) < MaxFrames
        \* the kernel answers the NOTIFY_RETRIEVE frames it was sent
        /\ \E r \in DOMAIN retrs : retrs[r].nu = n /\ retrs[r].frames # <<>>
        /\ tasks' = Append(tasks, Task("NotifyReply", n, 0, a.offset, a.data))
        /\ UNCHANGED <<exited, remains, interrupted, notify_unique,
                       notify_remains, chans, retrs, env, history>>
        /\ UNCHANGED <<msgvars, startvars, chanvars>>

\* a NOTIFY_REPLY frame with any notify unique in its header, asked for or
\* not: the session reads header.unique as it comes
ReceiveAnyNotifyReply ==
    \E n \in 0..MaxRetrieves :
        /\ Len(tasks) < MaxFrames
        /\ tasks' = Append(tasks, Task("NotifyReply", n, 0, 0, Bytes(<<7>>)))
        /\ UNCHANGED <<exited, remains, interrupted, notify_unique,
                       notify_remains, chans, retrs, env, history>>
        /\ UNCHANGED <<msgvars, startvars, chanvars>>

----------------------------------------------------------------------------
\* a bug the block under the state lock could have: the exited flag is not
\* looked at
PreDispatch_ignores_exited(t) ==
    /\ tasks[t].pc = "check"
    /\ IF tasks[t].unique \in interrupted
       THEN /\ interrupted' = interrupted \ {tasks[t].unique}
            /\ tasks' = [tasks EXCEPT ![t].pc = "done",
                                      ![t].result = "dropped_interrupted"]
       ELSE /\ tasks' = [tasks EXCEPT ![t].pc = "dispatch"]
            /\ UNCHANGED interrupted
    /\ UNCHANGED <<exited, remains, notify_unique, notify_remains, chans,
                   retrs, env, history>>
    /\ UNCHANGED <<msgvars, startvars, chanvars>>

\* Session::process, the block under the state lock: an exited session and
\* an interrupted unique drop the request.
PreDispatch(t) ==
    /\ tasks[t].pc = "check"
    /\ LET u    == tasks[t].unique
           seen == [tasks[t] EXCEPT
                      !.intr_before = (u \in history.interrupts),
                      !.slot_owner =
                          IF /\ tasks[t].kind = "NotifyReply"
                             /\ ~exited
                             /\ u \in DOMAIN notify_remains
                          THEN notify_remains[u] ELSE 0]
       IN  IF exited
           THEN /\ tasks' = [tasks EXCEPT ![t] =
                               [seen EXCEPT !.pc = "done",
                                            !.result = "dropped_exited"]]
                /\ UNCHANGED interrupted
           ELSE IF u \in interrupted
           THEN /\ interrupted' = interrupted \ {u}
                /\ tasks' = [tasks EXCEPT ![t] =
                               [seen EXCEPT !.pc = "done",
                                            !.result = "dropped_interrupted"]]
           ELSE /\ tasks' = [tasks EXCEPT ![t] = [seen EXCEPT !.pc = "dispatch"]]
                /\ UNCHANGED interrupted
    /\ UNCHANGED <<exited, remains, notify_unique, notify_remains, chans,
                   retrs, env, history>>
    /\ UNCHANGED <<msgvars, startvars, chanvars>>

\* a reply written by the session itself, followed by `?`
\* the history notes the tasks whose frame went out after the reply to
\* DESTROY had been written
DestroyAnswered ==
    \E d \in DOMAIN tasks : tasks[d].kind = "Destroy" /\ tasks[d].frames # <<>>
NoteWrite(t, r) ==
    [history EXCEPT !.late = IF r.ret = "Ok" /\ DestroyAnswered
                             THEN @ \cup {t} ELSE @]

SessionReply(t, r) ==
    /\ tasks' = [tasks EXCEPT ![t] =
                   [@ EXCEPT !.pc = "done",
                             !.frames = Wrote(@, r),
                             !.io_failed = (r.ret # "Ok"),
                             !.result = IF r.ret = "Ok" THEN "Ok" ELSE "Err"]]
    /\ env' = IoCount(r, 0)
    /\ history' = NoteWrite(t, r)
    /\ UNCHANGED <<exited, remains, interrupted, notify_unique,
                   notify_remains, chans, retrs>>
    /\ UNCHANGED <<msgvars, startvars, chanvars>>

\* RequestKind::Init: an INIT after the handshake is answered EIO
DispatchInit(t) ==
    /\ tasks[t].pc = "dispatch"
    /\ tasks[t].kind = "Init"
    /\ \E ok \in IoOutcomes : SessionReply(t, reply_err(tasks[t].unique, EIO, ok))

\* a bug the Unknown arm could have: the error of the Init arm
DispatchUnknown_replies_eio(t) ==
    /\ tasks[t].pc = "dispatch"
    /\ tasks[t].kind = "Unknown"
    /\ \E ok \in IoOutcomes : SessionReply(t, reply_err(tasks[t].unique, EIO, ok))

\* RequestKind::Unknown
DispatchUnknown(t) ==
    /\ tasks[t].pc = "dispatch"
    /\ tasks[t].kind = "Unknown"
    /\ \E ok \in IoOutcomes :
           SessionReply(t, reply_err(tasks[t].unique, ENOSYS, ok))

\* a bug the Destroy arm could have: the reply is written, the flag is not set
DispatchDestroy_keeps_running(t) ==
    /\ tasks[t].pc = "dispatch"
    /\ tasks[t].kind = "Destroy"
    /\ tasks' = [tasks EXCEPT ![t].pc = "destroy_reply"]
    /\ UNCHANGED <<exited, remains, interrupted, notify_unique,
                   notify_remains, chans, retrs, env, history>>
    /\ UNCHANGED <<msgvars, startvars, chanvars>>

\* RequestKind::Destroy: the flag is set under the lock, then the reply is
\* written
DispatchDestroy(t) ==
    /\ tasks[t].pc = "dispatch"
    /\ tasks[t].kind = "Destroy"
    /\ exited' = TRUE
    /\ tasks' = [tasks EXCEPT ![t].pc = "destroy_reply"]
    /\ UNCHANGED <<remains, interrupted, notify_unique, notify_remains,
                   chans, retrs, env, history>>
    /\ UNCHANGED <<msgvars, startvars, chanvars>>

DestroyReply(t) ==
    /\ tasks[t].pc = "destroy_reply"
    /\ \E ok \in IoOutcomes : SessionReply(t, reply(tasks[t].unique, <<>>, ok))

----------------------------------------------------------------------------
\* a bug send_interrupt could have: the entry is signalled but not removed
send_interrupt_keeps_entry(st, unique) ==
    IF unique \in DOMAIN st.remains
    THEN LET c == st.remains[unique]
         IN  [remains     |-> st.remains,
              interrupted |-> st.interrupted \cup {unique},
              chans       |-> [st.chans EXCEPT ![c].sent = @ + 1,
                                               ![c].tx = "sent"]]
    ELSE st

\* Session::send_interrupt on st = [remains, interrupted, chans]
send_interrupt(st, unique) ==
    IF unique \in DOMAIN st.remains
    THEN LET c == st.remains[unique]
         IN  [remains     |-> MapRemove(st.remains, unique),
              interrupted |-> st.interrupted \cup {unique},
              chans       |-> [st.chans EXCEPT ![c].sent = @ + 1,
                                               ![c].tx = "sent"]]
    ELSE st

\* Session::enable_interrupt: a new oneshot channel whose sender replaces
\* (and so drops) the sender the table held for this unique
enable_interrupt(st, unique, owner) ==
    LET c   == Len(st.chans) + 1
        old == IF unique \in DOMAIN st.remains
               THEN [st.chans EXCEPT ![st.remains[unique]].tx = "dropped"]
               ELSE st.chans
    IN  [remains     |-> MapInsert(st.remains, unique, c),
         interrupted |-> st.interrupted,
         chans       |-> Append(old, [unique |-> unique, owner |-> owner,
                                      sent |-> 0, tx |-> "held",
                                      rx |-> "held"])]

\* a bug send_notify_reply could have: the slot is completed but not removed
send_notify_reply_keeps_slot(st, unique, offset, d) ==
    IF unique \in DOMAIN st.notify_remains
    THEN LET r == st.notify_remains[unique]
         IN  [notify_remains |-> st.notify_remains,
              retrs |-> [st.retrs EXCEPT ![r].got =
                             IF st.retrs[r].pc = "failed" THEN @
                             ELSE <<offset, d>>]]
    ELSE st

\* Session::send_notify_reply on st = [notify_remains, retrs]; the value is
\* lost when the receiver was dropped (notify_retrieve returned an error)
send_notify_reply(st, unique, offset, d) ==
    IF unique \in DOMAIN st.notify_remains
    THEN LET r == st.notify_remains[unique]
         IN  [notify_remains |-> MapRemove(st.notify_remains, unique),
              retrs |-> [st.retrs EXCEPT ![r].got =
                             IF st.retrs[r].pc = "failed" THEN @
                             ELSE <<offset, d>>]]
    ELSE st

\* a bug the counter could have: the value is read but not advanced
fetch_add_stuck(v) == v

\* AtomicU64::fetch_add(1): the new value of the counter
fetch_add(v) == v + 1

IntrState == [remains |-> remains, interrupted |-> interrupted, chans |-> chans]
RetrState == [notify_remains |-> notify_remains, retrs |-> retrs]

\* a bug the Interrupt arm could have: the INTERRUPT frame is answered like a
\* request
DispatchInterrupt_replies(t) ==
    /\ tasks[t].pc = "dispatch"
    /\ tasks[t].kind = "Interrupt"
    /\ \E ok \in IoOutcomes : SessionReply(t, reply(tasks[t].unique, <<>>, ok))

\* RequestKind::Interrupt
DispatchInterrupt(t) ==
    /\ tasks[t].pc = "dispatch"
    /\ tasks[t].kind = "Interrupt"
    /\ LET st == send_interrupt(IntrState, tasks[t].arg_unique)
       IN  /\ remains' = st.remains
           /\ interrupted' = st.interrupted
           /\ chans' = st.chans
    /\ tasks' = [tasks EXCEPT ![t].pc = "done", ![t].result = "Ok"]
    /\ history' = [history EXCEPT !.interrupts = @ \cup {tasks[t].arg_unique}]
    /\ UNCHANGED <<exited, notify_unique, notify_remains, retrs, env>>
    /\ UNCHANGED <<msgvars, startvars, chanvars>>

\* RequestKind::NotifyReply
DispatchNotifyReply(t) ==
    /\ tasks[t].pc = "dispatch"
    /\ tasks[t].kind = "NotifyReply"
    /\ LET st == send_notify_reply(RetrState, tasks[t].unique,
                                   tasks[t].offset, tasks[t].data)
       IN  /\ notify_remains' = st.notify_remains
           /\ retrs' = st.retrs
    /\ tasks' = [tasks EXCEPT ![t].pc = "done", ![t].result = "Ok"]
    /\ UNCHANGED <<exited, remains, interrupted, notify_unique, chans,
                   env, history>>
    /\ UNCHANGED <<msgvars, startvars, chanvars>>

\* Forget::new(ino, nlookup)
Forget_new(ino, nlookup) == [nodeid |-> ino, nlookup |-> nlookup]

\* a bug make_forgets could have: a slice of one record
make_forgets_first_only(forgets) ==
    <<Forget_new(forgets[1].nodeid, forgets[1].nlookup)>>

\* make_forgets: the array of fuse_forget_one seen as a slice of Forget of
\* the same length
make_forgets(forgets) ==
    [i \in 1..Len(forgets) |->
        Forget_new(forgets[i].nodeid, forgets[i].nlookup)]

\* the Operation the arm of the request's kind hands to fs.call
operation(task) ==
    IF task.kind = "Forget"
    THEN [name |-> "Forget",
          forgets |-> <<Forget_new(task.nodeid, task.arg.nlookup)>>]
    ELSE IF task.kind = "BatchForget"
    THEN [name |-> "Forget", forgets |-> make_forgets(task.arg)]
    ELSE [name |-> task.kind, parent |-> task.nodeid]

\* run_op! and the Forget arms: the user handler is called
DispatchOp(t) ==
    /\ tasks[t].pc = "dispatch"
    /\ tasks[t].kind \in OpKinds \cup ForgetKinds
    /\ tasks' = [tasks EXCEPT ![t].pc = "handler", ![t].invoked = @ + 1,
                              ![t].op = operation(tasks[t])]
    /\ UNCHANGED <<exited, remains, interrupted, notify_unique,
                   notify_remains, chans, retrs, env, history>>
    /\ UNCHANGED <<msgvars, startvars, chanvars>>

----------------------------------------------------------------------------
\* The user handler, through the API it is given: the typed reply of the
\* operation (consumed by its one method), the Context (reply_err and
\* on_interrupt take &mut self and can be called again), and its result.
HandlerWrote(t, r, used, nerr) ==
    /\ tasks' = [tasks EXCEPT ![t] =
                   [@ EXCEPT !.frames = Wrote(@, r),
                             !.io_failed = (@ \/ r.ret # "Ok"),
                             !.handle = IF used THEN "used" ELSE @,
                             !.nerr = nerr]]
    /\ env' = IoCount(r, nerr - tasks[t].nerr)
    /\ history' = NoteWrite(t, r)
    /\ UNCHANGED <<exited, remains, interrupted, notify_unique,
                   notify_remains, chans, retrs>>
    /\ UNCHANGED <<msgvars, startvars, chanvars>>

\* ReplyEntry::entry and the like: cx.reply(struct bytes)
HandlerReply(t) ==
    /\ tasks[t].pc = "handler"
    /\ tasks[t].kind = "Lookup"
    /\ tasks[t].handle = "unused"
    /\ \E ok \in IoOutcomes :
           HandlerWrote(t, reply(tasks[t].unique, EntryOut, ok), TRUE,
                        tasks[t].nerr)

\* Context::reply_err
HandlerReplyErr(t) ==
    /\ tasks[t].pc = "handler"
    /\ env.err_replies < MaxErrReplies
    /\ \E ok \in IoOutcomes :
           HandlerWrote(t, reply_err(tasks[t].unique, HandlerErrno, ok), FALSE,
                        tasks[t].nerr + 1)

\* Context::on_interrupt, while fewer than bound calls were made
OnInterrupt(t, bound) ==
    /\ tasks[t].pc = "handler"
    /\ Len(chans) < bound
    /\ LET st == enable_interrupt(IntrState, tasks[t].unique, t)
       IN  /\ remains' = st.remains
           /\ interrupted' = st.interrupted
           /\ chans' = st.chans
    /\ UNCHANGED <<exited, notify_unique, notify_remains, tasks, retrs,
                   env, history>>
    /\ UNCHANGED <<msgvars, startvars, chanvars>>

HandlerOnInterrupt(t) == OnInterrupt(t, MaxChans)

MaxIntrChans == 2      \* on_interrupt() calls where the futures are awaited

HandlerOnInterruptAgain(t) == OnInterrupt(t, MaxIntrChans)

\* Interrupt::poll on the channel of the future: the result of the receiver,
\* Ok(()) after a send and Err(Canceled) after the sender was dropped, is
\* discarded and the future is ready in both cases
Interrupt_poll(ch) == IF ch.tx = "held" THEN "Pending" ELSE "Ready"

\* the handler awaits an Interrupt future it obtained from on_interrupt
HandlerAwaitInterrupt(t) ==
    /\ tasks[t].pc = "handler"
    /\ \E c \in DOMAIN chans :
           /\ chans[c].owner = t
           /\ chans[c].rx = "held"
           /\ Interrupt_poll(chans[c]) = "Ready"
           /\ chans' = [chans EXCEPT ![c].rx = "resolved"]
    /\ UNCHANGED <<exited, remains, interrupted, notify_unique,
                   notify_remains, tasks, retrs, env, history>>
    /\ UNCHANGED <<msgvars, startvars, chanvars>>

\* fs.call returns; with Err, `?` makes process return the error.  The
\* Interrupt futures of the handler are dropped with it.
HandlerReturn(t) ==
    /\ tasks[t].pc = "handler"
    /\ \E res \in {"Ok", "Err"} :
           tasks' = [tasks EXCEPT ![t].pc = "done", ![t].result = res]
    /\ chans' = [c \in DOMAIN chans |->
                   IF chans[c].owner = t THEN [chans[c] EXCEPT !.rx = "dropped"]
                   ELSE chans[c]]
    /\ UNCHANGED <<exited, remains, interrupted, notify_unique,
                   notify_remains, retrs, env, history>>
    /\ UNCHANGED <<msgvars, startvars, chanvars>>

----------------------------------------------------------------------------
\* Session::notify_retrieve, in its three steps: the counter, the table
\* under its lock, the frame.
\* (the callers are interchangeable: they start in the order of their index)
RetrieveAlloc(r) ==
    /\ retrs[r].pc = "idle"
    /\ r > 1 => retrs[r - 1].pc # "idle"
    /\ retrs' = [retrs EXCEPT ![r].pc = "alloc", ![r].nu = notify_unique,
                              ![r].seq = history.allocs + 1]
    /\ notify_unique' = fetch_add(notify_unique)
    /\ history' = [history EXCEPT !.allocs = @ + 1]
    /\ UNCHANGED <<exited, remains, interrupted, notify_remains, tasks,
                   chans, env>>
    /\ UNCHANGED <<msgvars, startvars, chanvars>>

\* a bug notify_retrieve could have: the frame is written first and the
\* slot is registered only after the write
RetrieveInsert_after_send(r) ==
    /\ retrs[r].pc = "alloc"
    /\ retrs' = [retrs EXCEPT ![r].pc = "inserted"]
    /\ UNCHANGED <<exited, remains, interrupted, notify_unique,
                   notify_remains, tasks, chans, env, history>>
    /\ UNCHANGED <<msgvars, startvars, chanvars>>

\* notify_remains.lock().await.insert(notify_unique, tx): an older sender
\* under the same key would be dropped, canceling its receiver
RetrieveInsert(r) ==
    /\ retrs[r].pc = "alloc"
    /\ LET n == retrs[r].nu
       IN  /\ notify_remains' = MapInsert(notify_remains, n, r)
           /\ retrs' = [x \in DOMAIN retrs |->
                          IF x = r THEN [retrs[x] EXCEPT !.pc = "inserted"]
                          ELSE IF n \in DOMAIN notify_remains
                                  /\ notify_remains[n] = x
                               THEN [retrs[x] EXCEPT !.canceled = TRUE]
                               ELSE retrs[x]]
    /\ UNCHANGED <<exited, remains, interrupted, notify_unique, tasks,
                   chans, env, history>>
    /\ UNCHANGED <<msgvars, startvars, chanvars>>

\* fuse_notify_retrieve_out { notify_unique, nodeid, offset, size, padding }
RetrieveOut(n) ==
    Bytes(U64Bytes(n) \o U64Bytes(1) \o U64Bytes(0) \o U32Bytes(<<0, 4>>)
          \o U32Bytes(<<0, 0>>))

RetrieveSend(r) ==
    /\ retrs[r].pc = "inserted"
    /\ \E ok \in IoOutcomes :
           LET m == send_msg(0, FUSE_NOTIFY_RETRIEVE,
                             <<RetrieveOut(retrs[r].nu)>>, ok)
           IN  /\ retrs' = [retrs EXCEPT
                              ![r].pc = IF m.ret = "Ok" THEN "waiting" ELSE "failed",
                              ![r].frames = Wrote(@, m)]
               /\ env' = IoCount(m, 0)
    /\ UNCHANGED <<exited, remains, interrupted, notify_unique,
                   notify_remains, tasks, chans, history>>
    /\ UNCHANGED <<msgvars, startvars, chanvars>>

\* Notifier::retrieve after handle.await: debug_assert_eq!(offset,
\* in_offset) panics in a build with debug assertions, and is compiled out
\* of one without
retrieve_returns(offset, got, debug_assertions) ==
    IF debug_assertions /\ got[1] # offset THEN "panic" ELSE "Ok"

\* Notifier::retrieve: the handle resolves with (in_offset, data); the call
\* was made with the offset 0 of RetrieveOut
RetrieveReturn(r) ==
    /\ retrs[r].pc = "waiting"
    /\ retrs[r].got # NoGot
    /\ \E da \in BOOLEAN :
           retrs' = [retrs EXCEPT ![r].pc = retrieve_returns(0, retrs[r].got, da)]
    /\ UNCHANGED <<exited, remains, interrupted, notify_unique,
                   notify_remains, tasks, chans, env, history>>
    /\ UNCHANGED <<msgvars, startvars, chanvars>>

----------------------------------------------------------------------------
\* The fire-and-forget notifications of the Session.
FUSE_NOTIFY_INVAL_INODE == 2
FUSE_NOTIFY_INVAL_ENTRY == 3
FUSE_NOTIFY_STORE       == 4
FUSE_NOTIFY_DELETE      == 6

\* a bug send_notify could have: the code goes into the unique field
send_notify_code_as_unique(code, payload, io_ok) ==
    send_msg(code, 0, payload, io_ok)

\* send_notify: a frame of unique 0 with the code in the error field
send_notify(code, payload, io_ok) == send_msg(0, code, payload, io_ok)

\* fuse_notify_inval_inode_out { ino, off, len }
notify_inval_inode(ino, off, len, io_ok) ==
    send_notify(FUSE_NOTIFY_INVAL_INODE,
                <<Bytes(U64Bytes(ino) \o U64Bytes(off) \o U64Bytes(len))>>,
                io_ok)

\* fuse_notify_inval_entry_out { parent, namelen, padding }, then the name;
\* u32::try_from(name.len()).unwrap() panics on a name of 4 GiB or more
notify_inval_entry(parent, name, io_ok) ==
    IF ~FitsU32(SliceLen(name)) THEN [ret |-> "panic", out |-> <<>>]
    ELSE send_notify(FUSE_NOTIFY_INVAL_ENTRY,
                     <<Bytes(U64Bytes(parent) \o U32Bytes(SliceLen(name))
                             \o U32Bytes(<<0, 0>>)),
                       name>>, io_ok)

\* fuse_notify_delete_out { parent, child, namelen, padding }, then the name
notify_delete(parent, child, name, io_ok) ==
    IF ~FitsU32(SliceLen(name)) THEN [ret |-> "panic", out |-> <<>>]
    ELSE send_notify(FUSE_NOTIFY_DELETE,
                     <<Bytes(U64Bytes(parent) \o U64Bytes(child)
                             \o U32Bytes(SliceLen(name))
                             \o U32Bytes(<<0, 0>>)),
                       name>>, io_ok)

\* fuse_notify_store_out { nodeid, offset, size, padding }, then the data
\* slices; u32::try_from(total).unwrap() panics on 4 GiB or more
notify_store(ino, offset, payload, io_ok) ==
    IF ~FitsU32(SumLen(payload)) THEN [ret |-> "panic", out |-> <<>>]
    ELSE send_notify(FUSE_NOTIFY_STORE,
                     <<Bytes(U64Bytes(ino) \o U64Bytes(offset)
                             \o U32Bytes(SumLen(payload))
                             \o U32Bytes(<<0, 0>>))>> \o payload, io_ok)

NotifyNames == {<<>>, Bytes(<<104, 101>>), Zeros(Limb)}
NotifyData  == {<<>>, <<Bytes(<<104, 101>>)>>,
                <<Bytes(<<104, 101>>), Bytes(<<108, 108, 111>>)>>,
                <<Zeros(Limb - 1), Zeros(1)>>}

\* a Notifier method other than retrieve is called, on a writer of its own
FireNotify ==
    \E kind \in {"inval_inode", "inval_entry", "delete", "store"},
       ino \in {1, 2}, name \in NotifyNames, d \in NotifyData,
       ok \in BOOLEAN :
        LET r == CASE kind = "inval_inode" -> notify_inval_inode(ino, 0, 8, ok)
                   [] kind = "inval_entry" -> notify_inval_entry(ino, name, ok)
                   [] kind = "delete" -> notify_delete(1, ino, name, ok)
                   [] kind = "store" -> notify_store(ino, 8, d, ok)
        IN  /\ call = NoCall
            /\ call' = [op |-> kind, ino |-> ino, name |-> name, data |-> d,
                        io_ok |-> ok]
            /\ dest' = r.out
            /\ ret' = r.ret
            /\ UNCHANGED <<sessvars, startvars, chanvars>>

\* SpecFire: the notifications beside concurrent retrieves
FireNext ==
    \/ FireNotify
    \/ NewWriter
    \/ \E r \in DOMAIN retrs : RetrieveAlloc(r)
    \/ \E r \in DOMAIN retrs : RetrieveInsert(r)
    \/ \E r \in DOMAIN retrs : RetrieveSend(r)

----------------------------------------------------------------------------
\* Spec: the dispatcher over every kind of request and INTERRUPT.
Next ==
    \/ ReceiveOp
    \/ ReceiveRequest
    \/ ReceiveInterrupt
    \/ \E t \in DOMAIN tasks : PreDispatch(t)
    \/ \E t \in DOMAIN tasks : DispatchInterrupt(t)
    \/ \E t \in DOMAIN tasks : DispatchOp(t)
    \/ \E t \in DOMAIN tasks : HandlerOnInterrupt(t)
    \/ \E t \in DOMAIN tasks : HandlerReturn(t)
    \/ \E t \in DOMAIN tasks : HandlerReply(t)
    \/ \E t \in DOMAIN tasks : HandlerReplyErr(t)
    \/ \E t \in DOMAIN tasks : DispatchInit(t)
    \/ \E t \in DOMAIN tasks : DispatchUnknown(t)
    \/ \E t \in DOMAIN tasks : DispatchDestroy(t)
    \/ \E t \in DOMAIN tasks : DestroyReply(t)

----------------------------------------------------------------------------
\* RequestKind::Setlk { arg, sleep }: SETLK and SETLKW frames.
FUSE_LK_FLOCK == 1
F_RDLCK == 0
F_WRLCK == 1
F_UNLCK == 2
LOCK_SH == 1
LOCK_EX == 2
LOCK_NB == 4
LOCK_UN == 8

\* arg.lk_flags, arg.lk.typ and sleep (the frame is SETLKW) of the frames the
\* kernel sends
LkFlags == 0..3
LkTypes == {F_RDLCK, F_WRLCK, F_UNLCK, 3}

\* x & bit != 0 and x | bit, for a bit that is a power of two
BitSet(x, bit) == (x \div bit) % 2 = 1
BitOr(x, bit) == IF BitSet(x, bit) THEN x ELSE x + bit

\* a bug the arm could have: LOCK_NB is added to a sleeping request
setlk_operation_nb_on_sleep(arg) ==
    IF BitSet(arg.lk_flags, FUSE_LK_FLOCK)
    THEN IF arg.typ \notin {F_RDLCK, F_WRLCK, F_UNLCK}
         THEN [name |-> "EIO"]
         ELSE LET op == IF arg.typ = F_RDLCK THEN LOCK_SH
                        ELSE IF arg.typ = F_WRLCK THEN LOCK_EX ELSE LOCK_UN
              IN  [name |-> "Flock",
                   op |-> IF arg.sleep THEN BitOr(op, LOCK_NB) ELSE op]
    ELSE [name |-> "Setlk", typ |-> arg.typ, sleep |-> arg.sleep]

\* the Setlk arm: what it hands to run_op!, or the EIO it replies itself
setlk_operation(arg) ==
    IF BitSet(arg.lk_flags, FUSE_LK_FLOCK)
    THEN IF arg.typ \notin {F_RDLCK, F_WRLCK, F_UNLCK}
         THEN [name |-> "EIO"]
         ELSE LET op == IF arg.typ = F_RDLCK THEN LOCK_SH
                        ELSE IF arg.typ = F_WRLCK THEN LOCK_EX ELSE LOCK_UN
              IN  [name |-> "Flock",
                   op |-> IF ~arg.sleep THEN BitOr(op, LOCK_NB) ELSE op]
    ELSE [name |-> "Setlk", typ |-> arg.typ, sleep |-> arg.sleep]

MaxLockFrames == 1     \* SETLK / SETLKW frames received

ReceiveSetlk ==
    \E f \in LkFlags, ty \in LkTypes, sl \in BOOLEAN :
        /\ Len(tasks) < MaxLockFrames
        /\ tasks' = Append(tasks, [Task("Setlk", env.next, 0, 0, <<>>) EXCEPT
                                      !.handle = "unused",
                                      !.arg = [lk_flags |-> f, typ |-> ty,
                                               sleep |-> sl]])
        /\ env' = [env EXCEPT !.next = @ + 1]
        /\ UNCHANGED <<exited, remains, interrupted, notify_unique,
                       notify_remains, chans, retrs, history>>
        /\ UNCHANGED <<msgvars, startvars, chanvars>>

DispatchSetlk(t) ==
    /\ tasks[t].pc = "dispatch"
    /\ tasks[t].kind = "Setlk"
    /\ LET o == setlk_operation(tasks[t].arg)
       IN  IF o.name = "EIO"
           THEN \E ok \in IoOutcomes :
                    SessionReply(t, reply_err(tasks[t].unique, EIO, ok))
           ELSE /\ tasks' = [tasks EXCEPT ![t].pc = "handler",
                                          ![t].invoked = @ + 1,
                                          ![t].op = o]
                /\ UNCHANGED <<exited, remains, interrupted, notify_unique,
                               notify_remains, chans, retrs, env, history>>
                /\ UNCHANGED <<msgvars, startvars, chanvars>>

\* ReplyEmpty::ok: cx.reply(&[])
HandlerReplyEmpty(t) ==
    /\ tasks[t].pc = "handler"
    /\ tasks[t].kind = "Setlk"
    /\ tasks[t].handle = "unused"
    /\ \E ok \in IoOutcomes :
           HandlerWrote(t, reply(tasks[t].unique, <<>>, ok), TRUE,
                        tasks[t].nerr)

\* SpecLock: SETLK and SETLKW frames and their handlers
LockNext ==
    \/ ReceiveSetlk
    \/ \E t \in DOMAIN tasks : PreDispatch(t)
    \/ \E t \in DOMAIN tasks : DispatchSetlk(t)
    \/ \E t \in DOMAIN tasks : HandlerReplyEmpty(t)
    \/ \E t \in DOMAIN tasks : HandlerReturn(t)

\* SpecForget: FORGET and BATCH_FORGET frames and their handlers
ForgetNext ==
    \/ ReceiveForget
    \/ \E t \in DOMAIN tasks : PreDispatch(t)
    \/ \E t \in DOMAIN tasks : DispatchOp(t)
    \/ \E t \in DOMAIN tasks : HandlerReplyErr(t)
    \/ \E t \in DOMAIN tasks : HandlerReturn(t)

\* SpecIntr: handlers that register for interrupts and await them, and
\* INTERRUPT frames
IntrNext ==
    \/ ReceiveOp
    \/ ReceiveInterrupt
    \/ \E t \in DOMAIN tasks : PreDispatch(t)
    \/ \E t \in DOMAIN tasks : DispatchInterrupt(t)
    \/ \E t \in DOMAIN tasks : DispatchOp(t)
    \/ \E t \in DOMAIN tasks : HandlerOnInterruptAgain(t)
    \/ \E t \in DOMAIN tasks : HandlerAwaitInterrupt(t)
    \/ \E t \in DOMAIN tasks : HandlerReturn(t)

\* SpecStray: as SpecNotify, with NOTIFY_REPLY frames of any unique
StrayNext ==
    \/ ReceiveOp
    \/ ReceiveInterrupt
    \/ ReceiveAnyNotifyReply
    \/ \E t \in DOMAIN tasks : PreDispatch(t)
    \/ \E t \in DOMAIN tasks : DispatchInterrupt(t)
    \/ \E t \in DOMAIN tasks : DispatchOp(t)
    \/ \E t \in DOMAIN tasks : HandlerOnInterrupt(t)
    \/ \E t \in DOMAIN tasks : HandlerReturn(t)
    \/ \E t \in DOMAIN tasks : DispatchNotifyReply(t)
    \/ \E r \in DOMAIN retrs : RetrieveAlloc(r)
    \/ \E r \in DOMAIN retrs : RetrieveInsert(r)
    \/ \E r \in DOMAIN retrs : RetrieveSend(r)

\* SpecNotify: retrieve notifications and their NOTIFY_REPLY frames, beside
\* operations whose handlers register for interrupts, and INTERRUPT.
NotifyNext ==
    \/ ReceiveOp
    \/ ReceiveInterrupt
    \/ ReceiveNotifyReply
    \/ \E t \in DOMAIN tasks : PreDispatch(t)
    \/ \E t \in DOMAIN tasks : DispatchInterrupt(t)
    \/ \E t \in DOMAIN tasks : DispatchOp(t)
    \/ \E t \in DOMAIN tasks : HandlerOnInterrupt(t)
    \/ \E t \in DOMAIN tasks : HandlerReturn(t)
    \/ \E t \in DOMAIN tasks : DispatchNotifyReply(t)
    \/ \E r \in DOMAIN retrs : RetrieveAlloc(r)
    \/ \E r \in DOMAIN retrs : RetrieveInsert(r)
    \/ \E r \in DOMAIN retrs : RetrieveSend(r)
    \/ \E r \in DOMAIN retrs : RetrieveReturn(r)

(***************************************************************************)
(* The INIT handshake: Session::start.                                     *)
(***************************************************************************)
MaxStartFrames == 3     \* frames the kernel sends during the handshake

\* MAX_WRITE_SIZE = 16 * 1024 * 1024, as a wide natural
MAX_WRITE_SIZE == <<256, 0>>

InitMajors    == {6, 7, 8}
InitMinors    == {5, 6, 31}
Readaheads    == {<<0, 4096>>, <<2, 0>>}       \* arg.max_readahead
EarlyOpcodes  == {"Lookup", "Getattr"}         \* frames that are not INIT

\* fuse_init_out::default()
InitOutDefault ==
    [major |-> 0, minor |-> 0, max_readahead |-> <<0, 0>>, flags |-> <<0, 0>>,
     max_background |-> 0, congestion_threshold |-> 0, max_write |-> <<0, 0>>,
     time_gran |-> <<0, 0>>]

U16Bytes(n) == <<n % 256, n \div 256>>

\* fuse_init_out.as_bytes(): the kernel's 64-byte layout
InitOutBytes(o) ==
    Bytes(U32Bytes(W(o.major)) \o U32Bytes(W(o.minor))
          \o U32Bytes(o.max_readahead) \o U32Bytes(o.flags)
          \o U16Bytes(o.max_background) \o U16Bytes(o.congestion_threshold)
          \o U32Bytes(o.max_write) \o U32Bytes(o.time_gran)
          \o [i \in 1..36 |-> 0])

NoSession == [created |-> FALSE]
NoFrame   == [kind |-> "none"]

StartInit ==
    start = [pc |-> "receive", received |-> 0, last |-> NoFrame,
             replies |-> <<>>, session |-> NoSession, error |-> 0]

\* the state after Session::start has handled one frame: the reply it wrote
\* (r), where the loop goes, what start returns
StartStepped(frame, r, pc, session, error) ==
    /\ start' = [pc       |-> IF r.ret = "Ok" THEN pc ELSE "failed",
                 received |-> start.received + 1,
                 last     |-> frame,
                 replies  |-> Wrote(start.replies, r),
                 session  |-> IF r.ret = "Ok" THEN session ELSE NoSession,
                 error    |-> IF r.ret = "Ok" THEN error ELSE EIO]
    /\ UNCHANGED <<server, signals, msgvars, sessvars, chanvars>>

\* Session::start, INIT with major > 7: a default init_out, and the loop
\* waits for the next INIT
StartRetry(frame) ==
    StartStepped(frame,
                 send_msg(frame.unique, 0, <<InitOutBytes(InitOutDefault)>>,
                          frame.io_ok),
                 "receive", NoSession, 0)

\* Session::start, INIT older than 7.6
StartRefuse(frame) ==
    StartStepped(frame, send_msg(frame.unique, 0 - EPROTO, <<>>, frame.io_ok),
                 "failed", NoSession, EPROTO)

\* a bug the accepted INIT could have: the reply does not echo max_readahead
StartAccept_no_echo(frame) ==
    StartStepped(frame,
                 send_msg(frame.unique, 0,
                          <<InitOutBytes([InitOutDefault EXCEPT
                                            !.max_write = MAX_WRITE_SIZE])>>,
                          frame.io_ok),
                 "done",
                 [created |-> TRUE, proto_major |-> frame.major,
                  proto_minor |-> frame.minor,
                  max_readahead |-> frame.max_readahead,
                  exited |-> FALSE, remains |-> <<>>,
                  interrupted |-> {}, notify_unique |-> 0,
                  notify_remains |-> <<>>],
                 0)

\* Session::start, INIT 7.6 or later: the kernel's parameters are kept, the
\* reply is composed and sent, the Session is returned
StartAccept(frame) ==
    StartStepped(frame,
                 send_msg(frame.unique, 0,
                          <<InitOutBytes([InitOutDefault EXCEPT
                                            !.max_readahead = frame.max_readahead,
                                            !.max_write = MAX_WRITE_SIZE])>>,
                          frame.io_ok),
                 "done",
                 [created |-> TRUE, proto_major |-> frame.major,
                  proto_minor |-> frame.minor,
                  max_readahead |-> frame.max_readahead,
                  exited |-> FALSE, remains |-> <<>>,
                  interrupted |-> {}, notify_unique |-> 0,
                  notify_remains |-> <<>>],
                 0)

\* a bug the version check could have: a newer major is refused like an
\* older one
start_init_refuses_newer(frame) ==
    LET arg == frame
    IN  IF arg.major # 7 \/ (arg.major = 7 /\ arg.minor < 6)
        THEN StartRefuse(frame)
        ELSE StartAccept(frame)

\* a bug the version check could have: the minor version is not looked at
start_init_any_minor(frame) ==
    LET arg == frame
    IN  IF arg.major > 7 THEN StartRetry(frame)
        ELSE IF arg.major < 7 THEN StartRefuse(frame)
        ELSE StartAccept(frame)

\* Session::start, the RequestKind::Init arm
start_init(frame) ==
    LET arg == frame
    IN  IF arg.major > 7 THEN StartRetry(frame)
        ELSE IF arg.major < 7 \/ (arg.major = 7 /\ arg.minor < 6)
        THEN StartRefuse(frame)
        ELSE StartAccept(frame)

\* a bug the arm of the other requests could have: the frame is skipped
\* without a reply
start_other_silent(frame) ==
    StartStepped(frame, [ret |-> "Ok", out |-> <<>>], "receive", NoSession, 0)

\* Session::start, the arm of every other request
start_other(frame) ==
    StartStepped(frame, send_msg(frame.unique, 0 - EIO, <<>>, frame.io_ok),
                 "receive", NoSession, 0)

StartFrame(kind, major, minor, ra, ok) ==
    [kind |-> kind, unique |-> start.received + 1, major |-> major,
     minor |-> minor, max_readahead |-> ra, io_ok |-> ok]

StartReceiveInit ==
    /\ start.pc = "receive"
    /\ start.received < MaxStartFrames
    /\ \E major \in InitMajors, minor \in InitMinors, ra \in Readaheads,
          ok \in BOOLEAN :
           start_init(StartFrame("Init", major, minor, ra, ok))

StartReceiveOther ==
    /\ start.pc = "receive"
    /\ start.received < MaxStartFrames
    /\ \E kind \in EarlyOpcodes, ok \in BOOLEAN :
           start_other(StartFrame(kind, 0, 0, <<0, 0>>, ok))

\* buf.receive reports that the connection is closed
StartTerminated ==
    /\ start.pc = "receive"
    /\ start' = [start EXCEPT !.pc = "failed", !.error = ENODEV,
                              !.last = NoFrame]
    /\ UNCHANGED <<server, signals, msgvars, sessvars, chanvars>>

StartNext ==
    \/ StartReceiveInit
    \/ StartReceiveOther
    \/ StartTerminated

(***************************************************************************)
(* The server: Server::mount runs the handshake, Server::run_until then    *)
(* receives frames and spawns a dispatch task for each.                    *)
(***************************************************************************)
ServerInit ==
    server = [pc |-> "running", cause |-> 0, main_loop |-> None, result |-> None]

\* a bug mount could have: the server is handed out before the handshake
mounted_unchecked == TRUE

\* Server::mount: Session::start(..).await? precedes Ok(Server { .. })
mounted == start.pc = "done"

\* a bug the loop could have: a closed connection is skipped like a frame
main_loop_ignores_closed(err) ==
    [pc |-> "running", cause |-> err, main_loop |-> None, result |-> None]

\* run_until when receiving fails with errno err: ENODEV ends main_loop with
\* Ok(()), any other error with Err(err); select! maps either to Ok(None)
main_loop_ends(err) ==
    [pc |-> "returned", cause |-> err,
     main_loop |-> IF err = ENODEV THEN "Ok" ELSE "Err",
     result |-> "Ok(None)"]

\* run_until: a frame is received and its dispatch task spawned
ServeReceive ==
    /\ mounted
    /\ server.pc = "running"
    /\ ReceiveOp

\* run_until: receiving fails
ServeReceiveFails ==
    /\ mounted
    /\ server.pc = "running"
    /\ \E err \in {ENODEV, EIO} : server' = main_loop_ends(err)
    /\ UNCHANGED <<start, signals, msgvars, sessvars, chanvars>>

\* run_until: the shutdown signal resolves first
ServeSignal ==
    /\ mounted
    /\ server.pc = "running"
    /\ server' = [pc |-> "returned", cause |-> 0, main_loop |-> None,
                  result |-> "Ok(Some)"]
    /\ UNCHANGED <<start, signals, msgvars, sessvars, chanvars>>

\* a bug the loop could have: process is awaited with `?` in the loop, so
\* the error of one request ends the loop
task_finished_propagates(srv, res) ==
    IF res = "Err" /\ srv.pc = "running" THEN main_loop_ends(EIO) ELSE srv

\* the spawned task: `if let Err(e) = session.process(..).await { log }`;
\* the result of process goes nowhere else
task_finished(srv, res) == srv

\* the spawned task ends when process has returned (finished_at notes how
\* many frames the loop had received by then)
SpawnedTaskEnds(t) ==
    /\ tasks[t].pc = "done"
    /\ tasks' = [tasks EXCEPT ![t].pc = "finished",
                              ![t].finished_at = Len(tasks)]
    /\ server' = task_finished(server, tasks[t].result)
    /\ UNCHANGED <<exited, remains, interrupted, notify_unique,
                   notify_remains, chans, retrs, env, history>>
    /\ UNCHANGED <<start, signals, msgvars, chanvars>>

\* SpecServer: the handshake, then the loop and the tasks it spawned
ServerNext ==
    \/ StartReceiveInit
    \/ StartReceiveOther
    \/ StartTerminated
    \/ ServeReceive
    \/ ServeReceiveFails
    \/ ServeSignal
    \/ \E t \in DOMAIN tasks : PreDispatch(t)
    \/ \E t \in DOMAIN tasks : DispatchOp(t)
    \/ \E t \in DOMAIN tasks : HandlerReply(t)
    \/ \E t \in DOMAIN tasks : HandlerReturn(t)

\* SpecTasks: the same, with the end of each spawned task as a step
TasksNext ==
    \/ StartReceiveInit
    \/ StartReceiveOther
    \/ StartTerminated
    \/ ServeReceive
    \/ ServeReceiveFails
    \/ ServeSignal
    \/ \E t \in DOMAIN tasks : PreDispatch(t)
    \/ \E t \in DOMAIN tasks : DispatchOp(t)
    \/ \E t \in DOMAIN tasks : HandlerReply(t)
    \/ \E t \in DOMAIN tasks : HandlerReturn(t)
    \/ \E t \in DOMAIN tasks : SpawnedTaskEnds(t)

(***************************************************************************)
(* The default shutdown signal: default_shutdown_signal is a loop over a   *)
(* select! of four signal futures; Server::run hands it to run_until.      *)
(***************************************************************************)
MaxSignals == 3     \* signals delivered to the process

SIGHUP  == 1
SIGINT  == 2
SIGPIPE == 13
SIGTERM == 15

SignalKinds == {SIGHUP, SIGINT, SIGTERM, SIGPIPE}

\* fut: the four fused futures (pending; ready once the signal arrived;
\* terminated once select! took its value); output: what the loop returned
SignalInit ==
    signals = [fut |-> [s \in SignalKinds |-> "pending"], output |-> 0,
               delivered |-> <<>>]

\* a bug the loop could have: SIGPIPE is returned like the other three
shutdown_select_returns_pipe(sg, s) ==
    [sg EXCEPT !.fut[s] = "terminated", !.output = s]

\* one turn of the loop in which select! takes the value of the ready
\* future s: SIGPIPE is logged and the loop continues, the others return
shutdown_select(sg, s) ==
    IF s = SIGPIPE
    THEN [sg EXCEPT !.fut[s] = "terminated"]
    ELSE [sg EXCEPT !.fut[s] = "terminated", !.output = s]

\* the kernel delivers a signal to the process; tokio's handler marks the
\* listener of that signal ready (it stays installed when the listener is
\* gone, so the signal has no other effect)
SigDeliver ==
    \E s \in SignalKinds :
        /\ mounted
        /\ server.pc = "running"
        /\ Len(signals.delivered) < MaxSignals
        /\ signals' = [signals EXCEPT
                          !.fut[s] = IF @ = "pending" THEN "ready" ELSE @,
                          !.delivered = Append(@, s)]
        /\ UNCHANGED <<start, server, msgvars, sessvars, chanvars>>

\* the signal future is polled: select! takes one of the ready futures,
\* chosen pseudo-randomly when several are ready
SigPoll ==
    \E s \in SignalKinds :
        /\ mounted
        /\ server.pc = "running"
        /\ signals.output = 0
        /\ signals.fut[s] = "ready"
        /\ signals' = shutdown_select(signals, s)
        /\ UNCHANGED <<start, server, msgvars, sessvars, chanvars>>

\* run_until: `sig = sig => Ok(Some(sig))` once the signal future returned
ServeShutdownSignal ==
    /\ signals.output # 0
    /\ ServeSignal

\* SpecSignal: the handshake, then Server::run until a signal or the end of
\* the loop
SignalNext ==
    \/ StartReceiveInit
    \/ StartReceiveOther
    \/ StartTerminated
    \/ SigDeliver
    \/ SigPoll
    \/ ServeShutdownSignal
    \/ ServeReceiveFails

(***************************************************************************)
(* The lock of a Channel: the clones share one descriptor and one          *)
(* semaphore of one permit (fuse-async-channel/src/tokio.rs).              *)
(***************************************************************************)
MaxClones == 3

Clone == [alive |-> TRUE, permit |-> FALSE, op |-> "idle", stage |-> "idle"]

ChanInit ==
    /\ semaphore = 1
    /\ clones = [c \in 1..MaxClones |-> Clone]

\* a bug poll_acquire_lock could have: Ready without a permit
poll_acquire_lock_unguarded(c) ==
    /\ clones' = [clones EXCEPT ![c].stage = "fd"]
    /\ UNCHANGED semaphore

\* Channel::poll_acquire_lock: Ready with the permit held; Pending (no step)
\* while the semaphore has none
poll_acquire_lock(c) ==
    IF clones[c].permit
    THEN /\ clones' = [clones EXCEPT ![c].stage = "fd"]
         /\ UNCHANGED semaphore
    ELSE /\ semaphore > 0
         /\ semaphore' = semaphore - 1
         /\ clones' = [clones EXCEPT ![c].stage = "fd", ![c].permit = TRUE]

\* Channel::release_lock
release_lock(c) ==
    IF clones[c].permit
    THEN /\ semaphore' = semaphore + 1
         /\ clones' = [clones EXCEPT ![c].permit = FALSE, ![c].op = "idle",
                                     ![c].stage = "idle"]
    ELSE /\ clones' = [clones EXCEPT ![c].op = "idle", ![c].stage = "idle"]
         /\ UNCHANGED semaphore

\* a task starts poll_read or poll_write_vectored on its clone
ChanStart(c) ==
    /\ clones[c].alive
    /\ clones[c].op = "idle"
    /\ \E op \in {"read", "write"} :
           clones' = [clones EXCEPT ![c].op = op, ![c].stage = "acquire"]
    /\ UNCHANGED semaphore
    /\ UNCHANGED <<mount, msgvars, sessvars, startvars>>

\* poll_lock, up to the closure
ChanAcquire(c) ==
    /\ clones[c].alive
    /\ clones[c].stage = "acquire"
    /\ poll_acquire_lock(c)
    /\ UNCHANGED <<mount, msgvars, sessvars, startvars>>

\* poll_lock, the closure: the descriptor is used through the UnsafeCell
ChanEnterFd(c) ==
    /\ clones[c].alive
    /\ clones[c].stage = "fd"
    /\ clones' = [clones EXCEPT ![c].stage = "infd"]
    /\ UNCHANGED semaphore
    /\ UNCHANGED <<mount, msgvars, sessvars, startvars>>

\* the closure returns Pending (not ready, or WouldBlock): poll_lock returns
\* through ready! and the permit stays with the clone
ChanPending(c) ==
    /\ clones[c].alive
    /\ clones[c].stage = "infd"
    /\ clones' = [clones EXCEPT ![c].stage = "acquire"]
    /\ UNCHANGED semaphore
    /\ UNCHANGED <<mount, msgvars, sessvars, startvars>>

\* the closure returns Ready: release_lock
ChanReady(c) ==
    /\ clones[c].alive
    /\ clones[c].stage = "infd"
    /\ release_lock(c)
    /\ UNCHANGED <<mount, msgvars, sessvars, startvars>>

\* the future of a pending operation is dropped; the Channel lives on
ChanAbandon(c) ==
    /\ clones[c].alive
    /\ clones[c].stage = "acquire"
    /\ clones' = [clones EXCEPT ![c].op = "idle", ![c].stage = "idle"]
    /\ UNCHANGED semaphore
    /\ UNCHANGED <<mount, msgvars, sessvars, startvars>>

\* Drop for Channel
ChanDrop(c) ==
    /\ clones[c].alive
    /\ clones[c].stage \in {"idle", "acquire"}
    /\ IF clones[c].permit
       THEN /\ semaphore' = semaphore + 1
            /\ clones' = [clones EXCEPT ![c] =
                            [alive |-> FALSE, permit |-> FALSE,
                             op |-> "idle", stage |-> "idle"]]
       ELSE /\ clones' = [clones EXCEPT ![c] =
                            [alive |-> FALSE, permit |-> FALSE,
                             op |-> "idle", stage |-> "idle"]]
            /\ UNCHANGED semaphore
    /\ UNCHANGED <<mount, msgvars, sessvars, startvars>>

\* Clone for Channel: a new clone of the same Inner, with a fresh Permit
ChanClone(c) ==
    /\ ~clones[c].alive
    /\ \E o \in DOMAIN clones : clones[o].alive
    /\ clones' = [clones EXCEPT ![c] = Clone]
    /\ UNCHANGED semaphore
    /\ UNCHANGED <<mount, msgvars, sessvars, startvars>>

ChanNext ==
    \/ \E c \in DOMAIN clones : ChanStart(c)
    \/ \E c \in DOMAIN clones : ChanAcquire(c)
    \/ \E c \in DOMAIN clones : ChanEnterFd(c)
    \/ \E c \in DOMAIN clones : ChanPending(c)
    \/ \E c \in DOMAIN clones : ChanReady(c)
    \/ \E c \in DOMAIN clones : ChanAbandon(c)
    \/ \E c \in DOMAIN clones : ChanDrop(c)
    \/ \E c \in DOMAIN clones : ChanClone(c)

\* What the scheduling gives a pending operation: its task is polled again
\* (poll_lock is entered), the semaphore hands a permit that keeps coming
\* back to every waiter in turn, and a write finds the descriptor writable.
\* A read is promised nothing: the kernel may have no frame to send.
ChanFair ==
    \A c \in 1..MaxClones :
        /\ SF_vars(ChanAcquire(c))
        /\ WF_vars(ChanEnterFd(c))
        /\ SF_vars(ChanReady(c) /\ clones[c].op = "write")

(***************************************************************************)
(* Connection (conn.rs): the root connection made by open holds the mount  *)
(* point; duplicate makes connections that do not.                         *)
(***************************************************************************)
MaxConns == 4

ConnInit == mount = [mounted |-> FALSE, conns |-> <<>>, helper |-> <<>>]

\* open returns the root: the first connection of the mount
Root == 1

\* Connection { fd, mountpoint }
Conn(mountpoint, ioc_clone) ==
    [alive |-> TRUE, mountpoint |-> mountpoint, ioc_clone |-> ioc_clone]

\* a bug unmount could have: the mount point is read but not taken
unmount_keeps_mountpoint(m, c) ==
    IF m.conns[c].mountpoint
    THEN [m EXCEPT !.helper = Append(@, c)]
    ELSE m

\* Connection::unmount on connection c of m: mountpoint.take(), and the
\* helper fuse_unmount_compat22 when it was Some
unmount(m, c) ==
    IF m.conns[c].mountpoint
    THEN [m EXCEPT !.conns[c].mountpoint = FALSE, !.helper = Append(@, c)]
    ELSE m

\* Connection::open: fuse_mount_compat25 fails; or it mounts and
\* set_nonblocking fails; or the root Connection is returned
ConnOpen ==
    /\ ~mount.mounted
    /\ mount.conns = <<>>
    /\ \E outcome \in {"mount_failed", "nonblocking_failed", "ok"} :
          mount' = [mount EXCEPT
                      !.mounted = (outcome # "mount_failed"),
                      !.conns = IF outcome = "ok"
                                THEN [c \in {Root} |-> Conn(TRUE, FALSE)] ELSE <<>>]
    /\ UNCHANGED <<semaphore, clones, msgvars, sessvars, startvars>>

\* Connection::duplicate, by dup or by FUSE_DEV_IOC_CLONE
ConnDuplicate(c) ==
    /\ mount.conns[c].alive
    /\ Len(mount.conns) < MaxConns
    /\ \E ioc_clone \in BOOLEAN :
          mount' = [mount EXCEPT !.conns = Append(@, Conn(FALSE, ioc_clone))]
    /\ UNCHANGED <<semaphore, clones, msgvars, sessvars, startvars>>

ConnUnmount(c) ==
    /\ mount.conns[c].alive
    /\ mount' = unmount(mount, c)
    /\ UNCHANGED <<semaphore, clones, msgvars, sessvars, startvars>>

\* Drop for Connection
ConnDrop(c) ==
    /\ mount.conns[c].alive
    /\ mount' = [unmount(mount, c) EXCEPT !.conns[c].alive = FALSE]
    /\ UNCHANGED <<semaphore, clones, msgvars, sessvars, startvars>>

ConnNext ==
    \/ ConnOpen
    \/ \E c \in DOMAIN mount.conns : ConnDuplicate(c)
    \/ \E c \in DOMAIN mount.conns : ConnUnmount(c)
    \/ \E c \in DOMAIN mount.conns : ConnDrop(c)

(***************************************************************************)
(* The specifications.                                                     *)
(***************************************************************************)
Init == MsgInit /\ SessInit /\ StartInit /\ ServerInit /\ SignalInit /\ ChanInit
        /\ ConnInit

Spec       == Init /\ [][Next]_vars
SpecNotify == Init /\ [][NotifyNext]_vars
SpecIntr == Init /\ [][IntrNext]_vars
SpecStray == Init /\ [][StrayNext]_vars
SpecMsg    == Init /\ [][MsgNext]_vars
SpecStart  == Init /\ [][StartNext]_vars
SpecChan   == Init /\ [][ChanNext]_vars
SpecChanLive == Init /\ [][ChanNext]_vars /\ ChanFair
SpecServer == Init /\ [][ServerNext]_vars
SpecTasks  == Init /\ [][TasksNext]_vars
SpecConn   == Init /\ [][ConnNext]_vars
SpecSignal == Init /\ [][SignalNext]_vars
SpecForget == Init /\ [][ForgetNext]_vars
SpecLock   == Init /\ [][LockNext]_vars
SpecFire   == Init /\ [][FireNext]_vars

(***************************************************************************)
(* Reading a frame back, as the kernel does: the fields of the 16-byte     *)
(* fuse_out_header and the payload behind it.                              *)
(***************************************************************************)
IsPlain(f, n) ==
    /\ Len(f) >= n
    /\ \A i \in 1..n : f[i].run = <<0, 1>> /\ f[i].byte \in 0..255

\* the little-endian u32 at bytes k+1..k+4, as a wide natural
FieldU32(f, k) ==
    <<f[k + 3].byte + 256 * f[k + 4].byte, f[k + 1].byte + 256 * f[k + 2].byte>>

\* the value of an i32 field whose bits are w
SignedOf(w) ==
    IF w[1] < Limb \div 2 THEN w[1] * Limb + w[2]
    ELSE 0 - ((Limb - 1 - w[1]) * Limb + (Limb - w[2]))

FrameLen(f)    == FieldU32(f, 0)
FrameError(f)  == SignedOf(FieldU32(f, 4))
FrameUnique(f) ==
    IF FieldU32(f, 12) = <<0, 0>>
    THEN FieldU32(f, 8)[1] * Limb + FieldU32(f, 8)[2]
    ELSE 0 - 1
FramePayload(f) == SubSeq(f, HeaderSize + 1, Len(f))

\* the payload slices one behind the other, without the encoder's Concat
RECURSIVE ElemsBefore(_, _)
ElemsBefore(d, i) ==
    IF i = 1 THEN 0 ELSE ElemsBefore(d, i - 1) + Len(d[i - 1])

PayloadIs(p, d) ==
    /\ Len(p) = ElemsBefore(d, Len(d) + 1)
    /\ \A i \in DOMAIN d : \A j \in DOMAIN d[i] :
           p[ElemsBefore(d, i) + j] = d[i][j]

\* f is the frame { len = 16 + sum |Pi|, error, unique } P1 .. Pn
FrameIs(f, unique, error, d) ==
    /\ IsPlain(f, HeaderSize)
    /\ FrameLen(f) = WAdd(<<0, 16>>, SumLen(d))
    /\ FrameError(f) = error
    /\ FrameUnique(f) = unique
    /\ PayloadIs(FramePayload(f), d)

(***************************************************************************)
(* Claims about the encoder (SpecMsg).                                     *)
(***************************************************************************)
\* C7: for every unique U and every list of payload slices P1..Pn that is
\* sent successfully, the bytes written are exactly a 16-byte header with
\* len = 16 + sum of |Pi|, error = 0 (the error given to send_msg) and
\* unique = U, followed by P1..Pn concatenated in order.
C7_ReplyFraming ==
    (call.op \in {"send_msg", "reply_vectored"} /\ ret = "Ok") =>
        /\ FrameIs(dest, call.unique, call.error, call.data)
        /\ call.op = "reply_vectored" => FrameError(dest) = 0

\* the chunked test of reply.rs: unique 42, "he" and "llo", 21 bytes
C7_Witness ==
    /\ call.op = "send_msg"
    /\ call.unique = 42
    /\ call.error = 0
    /\ call.data = <<Bytes(<<104, 101>>), Bytes(<<108, 108, 111>>)>>
    /\ ret = "Ok"
    /\ Len(dest) = 21

\* C8: for every unique U and every errno E, reply_err(E) writes exactly one
\* frame of 16 bytes with len = 16, error = -E and unique = U and no payload
\* (and nothing when the write fails).
C8_ErrorFraming ==
    call.op = "reply_err" =>
        IF call.io_ok
        THEN /\ ret = "Ok"
             /\ Len(dest) = 16
             /\ IsPlain(dest, 16)
             /\ FrameLen(dest) = <<0, 16>>
             /\ FrameError(dest) = 0 - call.error
             /\ FrameUnique(dest) = call.unique
        ELSE dest = <<>> /\ ret = "IoError"

\* reply_err(ENOSYS) for unique 42: the error field is ff ff ff da
C8_Witness ==
    /\ call.op = "reply_err"
    /\ call.error = ENOSYS
    /\ call.unique = 42
    /\ ret = "Ok"
    /\ dest[5].byte = 218 /\ dest[6].byte = 255 /\ dest[8].byte = 255

\* C9: a data reply of total length k (summed over all slices) greater than
\* the requested size S results in a single ERANGE error reply and none of
\* the data is written; a reply with k <= S writes the data.
C9_SizeBound ==
    (call.op \in {"data", "data_vectored"} /\ call.io_ok) =>
        IF WLe(SumLen(call.data), call.size)
        THEN ret = "Ok" /\ FrameIs(dest, call.unique, 0, call.data)
        ELSE ret = "Ok" /\ FrameIs(dest, call.unique, 0 - ERANGE, <<>>)

\* a slice of 2^32 bytes against a size of 4096: no frame at all
C9_Truncated ==
    /\ call.op = "data_vectored"
    /\ call.io_ok
    /\ call.size = <<0, 4096>>
    /\ call.data = <<Zeros(Limb)>>
    /\ ret = "InvalidData"
    /\ dest = <<>>

(***************************************************************************)
(* Claims about the dispatcher (Spec).                                     *)
(***************************************************************************)
NoReplyKinds == ForgetKinds \cup {"Interrupt", "NotifyReply"}

\* the frames task t wrote that carry its request's unique
RepliesOf(t) ==
    {i \in DOMAIN tasks[t].frames :
        FrameUnique(tasks[t].frames[i]) = tasks[t].unique}

\* C1: for every request frame handed to Session::process, under any handler
\* behaviour and any interleaving, at most one reply frame carrying the
\* request's unique is written; for Forget, BatchForget, Interrupt and
\* NotifyReply none is written, and for every other opcode (dispatched, run to
\* completion without a write error) exactly one is written.
C1_OneReply ==
    \A t \in DOMAIN tasks :
        /\ Cardinality(RepliesOf(t)) <= 1
        /\ tasks[t].kind \in NoReplyKinds => RepliesOf(t) = {}
        /\ ( /\ tasks[t].kind \notin NoReplyKinds
             /\ tasks[t].pc = "done"
             /\ tasks[t].result = "Ok"
             /\ ~tasks[t].io_failed )
           => Cardinality(RepliesOf(t)) = 1

\* a Lookup handler that used its typed reply and Context::reply_err
C1_TwoReplies ==
    \E t \in DOMAIN tasks :
        /\ tasks[t].kind = "Lookup"
        /\ tasks[t].handle = "used"
        /\ tasks[t].nerr = 1
        /\ Cardinality(RepliesOf(t)) = 2

\* C3: if an INTERRUPT naming unique U is processed before the request with
\* unique U is dispatched, the request is dropped when it is passed to
\* Session::process: the handler is not invoked, no reply frame is written
\* for U, and the interrupted set does not contain U afterwards.
C3_InterruptBeforeDispatch ==
    \A t \in DOMAIN tasks :
        ( /\ tasks[t].kind \in RequestKinds
          /\ tasks[t].intr_before
          /\ tasks[t].pc # "check" )
        => /\ tasks[t].pc = "done"
           /\ tasks[t].invoked = 0
           /\ tasks[t].frames = <<>>
           /\ tasks[t].unique \notin interrupted

\* the INTERRUPT came first, the handler ran and its reply was written
C3_Replied ==
    \E t \in DOMAIN tasks :
        /\ tasks[t].kind = "Lookup"
        /\ tasks[t].intr_before
        /\ tasks[t].invoked = 1
        /\ Cardinality(RepliesOf(t)) = 1
        /\ ~exited

\* an INTERRUPT naming U is dispatched in this step
InterruptStep(t, U) ==
    /\ t \in DOMAIN tasks
    /\ tasks[t].kind = "Interrupt"
    /\ tasks[t].arg_unique = U
    /\ tasks[t].pc = "dispatch"
    /\ tasks'[t].pc = "done"

\* C4: if a handler has registered via on_interrupt() for unique U and an
\* INTERRUPT naming U is then processed, the pending-interrupts entry for U
\* is removed, U is added to the interrupted set and the handler's Interrupt
\* future is signalled, exactly once; a second INTERRUPT for U does not
\* signal again.
C4_InterruptAfterRegistration ==
    [][ /\ \A c \in DOMAIN chans' : chans'[c].sent <= 1
        /\ \A t \in DOMAIN tasks : \A U \in 1..MaxFrames :
             InterruptStep(t, U) =>
               IF U \in DOMAIN remains
               THEN /\ U \notin DOMAIN remains'
                    /\ U \in interrupted'
                    /\ chans[remains[U]].sent = 0
                    /\ chans'[remains[U]].sent = 1
                    /\ chans'[remains[U]].tx = "sent"
                    /\ \A c \in DOMAIN chans :
                         c # remains[U] => chans'[c] = chans[c]
               ELSE /\ chans' = chans
                    /\ remains' = remains
                    /\ interrupted' = interrupted ]_vars

\* two INTERRUPTs for a registered unique have been processed
C4_Witness ==
    \E t1, t2 \in DOMAIN tasks : \E c \in DOMAIN chans :
        /\ t1 # t2
        /\ tasks[t1].kind = "Interrupt" /\ tasks[t1].pc = "done"
        /\ tasks[t2].kind = "Interrupt" /\ tasks[t2].pc = "done"
        /\ tasks[t1].result = "Ok" /\ tasks[t2].result = "Ok"
        /\ tasks[t1].arg_unique = chans[c].unique
        /\ tasks[t2].arg_unique = chans[c].unique
        /\ chans[c].sent = 1
        /\ chans[c].unique \in interrupted
        /\ chans[c].unique \notin DOMAIN remains

(***************************************************************************)
(* Claims about retrieve notifications (SpecNotify).                       *)
(***************************************************************************)
\* C5: after notify_retrieve has registered a slot with notify-unique N and
\* the session (not exited) processes a NOTIFY_REPLY frame whose header
\* unique is N with offset off' and payload data, the slot for N is removed
\* and the awaiter of that retrieve receives exactly (off', data).
C5_RetrieveRoundTrip ==
    \A t \in DOMAIN tasks :
        ( /\ tasks[t].kind = "NotifyReply"
          /\ tasks[t].pc = "done"
          /\ tasks[t].slot_owner # 0
          /\ retrs[tasks[t].slot_owner].pc = "waiting"
          /\ \A o \in DOMAIN tasks :
                (o # t /\ tasks[o].kind = "NotifyReply")
                => tasks[o].unique # tasks[t].unique )
        => /\ tasks[t].unique \notin DOMAIN notify_remains
           /\ retrs[tasks[t].slot_owner].got
                = <<tasks[t].offset, tasks[t].data>>

\* the NOTIFY_REPLY for a registered slot was dropped as interrupted
C5_Dropped ==
    \E t \in DOMAIN tasks :
        /\ tasks[t].kind = "NotifyReply"
        /\ tasks[t].result = "dropped_interrupted"
        /\ tasks[t].slot_owner # 0
        /\ retrs[tasks[t].slot_owner].pc = "waiting"
        /\ retrs[tasks[t].slot_owner].got = NoGot
        /\ tasks[t].unique \in DOMAIN notify_remains

Started == {r \in DOMAIN retrs : retrs[r].pc # "idle"}

\* C6: the notify-unique allocated by notify_retrieve is strictly increasing
\* across calls and never repeats, also under concurrent calls, so no two
\* outstanding retrieves share a key of the pending-retrieves table and a
\* NOTIFY_REPLY is never delivered to the wrong awaiter.
C6_NotifyUniqueMonotonic ==
    /\ \A a, b \in Started :
          /\ a # b => retrs[a].nu # retrs[b].nu
          /\ retrs[a].seq < retrs[b].seq => retrs[a].nu < retrs[b].nu
    /\ \A a \in Started : retrs[a].nu < notify_unique
    /\ \A n \in DOMAIN notify_remains : retrs[notify_remains[n]].nu = n
    /\ \A a \in DOMAIN retrs :
          /\ ~retrs[a].canceled
          /\ retrs[a].got # NoGot =>
               \E t \in DOMAIN tasks :
                  /\ tasks[t].kind = "NotifyReply"
                  /\ tasks[t].unique = retrs[a].nu
                  /\ retrs[a].got = <<tasks[t].offset, tasks[t].data>>

\* two retrieves in flight at once, each answered with its own reply
C6_Witness ==
    /\ retrs[1].got = <<8, Bytes(<<9>>)>>
    /\ retrs[2].got = <<0, Bytes(<<7>>)>>
    /\ retrs[1].nu = 0
    /\ retrs[2].nu = 1
    /\ notify_remains = <<>>

(***************************************************************************)
(* Claims about the Channel (SpecChan).                                    *)
(***************************************************************************)
InFd    == {c \in DOMAIN clones : clones[c].stage = "infd"}
Holders == {c \in DOMAIN clones : clones[c].permit}

\* C2: across concurrent dispatch tasks and notifier calls on the same
\* endpoint, at most one is inside a read or write of the descriptor at any
\* time (so the bytes of two frames never interleave): whoever is inside
\* holds the one permit.
C2_WriterExclusion ==
    /\ Cardinality(InFd) <= 1
    /\ \A c \in DOMAIN clones :
          clones[c].stage \in {"fd", "infd"} => clones[c].permit
    /\ Cardinality(Holders) + semaphore = 1

\* one writer inside the descriptor while another waits for the permit
C2_Witness ==
    \E a, b \in DOMAIN clones :
        /\ clones[a].op = "write" /\ clones[a].stage = "infd"
        /\ clones[b].op = "write" /\ clones[b].stage = "acquire"
        /\ ~clones[b].permit
        /\ semaphore = 0

(***************************************************************************)
(* Claims about the handshake (SpecStart).                                 *)
(***************************************************************************)
LastReply == start.replies[Len(start.replies)]

\* C10: during Session::start an INIT frame with major > 7 is answered with
\* a success reply carrying an all-zero init_out, no session is created, and
\* the handshake loop continues to read the next frame.
C10_NewerMajor ==
    ( /\ start.last.kind = "Init"
      /\ start.last.major > 7
      /\ start.last.io_ok )
    => /\ start.pc = "receive"
       /\ start.session = NoSession
       /\ Len(start.replies) = start.received
       /\ IsPlain(LastReply, Len(LastReply))
       /\ Len(LastReply) > HeaderSize
       /\ FrameLen(LastReply) = W(Len(LastReply))
       /\ FrameError(LastReply) = 0
       /\ FrameUnique(LastReply) = start.last.unique
       /\ \A i \in (HeaderSize + 1)..Len(LastReply) : LastReply[i].byte = 0

\* a Lookup answered EIO, then an INIT of protocol 8.31
C10_Witness ==
    /\ start.last.kind = "Init"
    /\ start.last.major = 8
    /\ start.last.minor = 31
    /\ start.last.io_ok
    /\ start.received = 2
    /\ Len(start.replies) = 2
    /\ FrameError(start.replies[1]) = 0 - EIO
    /\ start.pc = "receive"

\* the u32 at byte offset k of the payload of frame f
PayloadU32(f, k) == FieldU32(f, HeaderSize + k)

OlderVersion(frame) ==
    frame.kind = "Init"
    /\ (frame.major < 7 \/ (frame.major = 7 /\ frame.minor < 6))

\* C11: during Session::start an INIT frame with major < 7, or with major = 7
\* and minor < 6, is answered with an -EPROTO error reply and start fails
\* with EPROTO without creating a session.
C11_OlderVersion ==
    OlderVersion(start.last) =>
        /\ start.pc = "failed"
        /\ start.session = NoSession
        /\ start.last.io_ok =>
             /\ start.error = EPROTO
             /\ Len(start.replies) = start.received
             /\ FrameIs(LastReply, start.last.unique, 0 - EPROTO, <<>>)
             /\ Len(LastReply) = HeaderSize

\* an INIT of protocol 7.5 after one of protocol 8.6
C11_Witness ==
    /\ start.last.kind = "Init"
    /\ start.last.major = 7
    /\ start.last.minor = 5
    /\ start.last.io_ok
    /\ start.received = 2
    /\ start.pc = "failed"
    /\ start.error = EPROTO
    /\ FrameError(LastReply) = 0 - EPROTO

\* C12: during Session::start an INIT frame with major = 7 and minor >= 6 is
\* answered with a success reply whose init_out echoes the kernel's
\* max_readahead and has max_write = 16 MiB, and start returns a session
\* that recorded exactly that major, minor and max_readahead, with
\* exited = false and empty correlation tables.
C12_Accepted ==
    ( /\ start.last.kind = "Init"
      /\ start.last.major = 7
      /\ start.last.minor >= 6
      /\ start.last.io_ok )
    => /\ start.pc = "done"
       /\ start.error = 0
       /\ start.session.created
       /\ start.session.proto_major = start.last.major
       /\ start.session.proto_minor = start.last.minor
       /\ start.session.max_readahead = start.last.max_readahead
       /\ start.session.exited = FALSE
       /\ start.session.remains = <<>>
       /\ start.session.interrupted = {}
       /\ start.session.notify_remains = <<>>
       /\ Len(start.replies) = start.received
       /\ IsPlain(LastReply, Len(LastReply))
       /\ FrameLen(LastReply) = W(Len(LastReply))
       /\ FrameError(LastReply) = 0
       /\ FrameUnique(LastReply) = start.last.unique
       /\ PayloadU32(LastReply, 8) = start.last.max_readahead
       /\ PayloadU32(LastReply, 20) = <<256, 0>>

\* scenario S5: INIT 8.x, then INIT 7.31 with max_readahead = 128 KiB
C12_Witness ==
    /\ start.received = 2
    /\ start.last.kind = "Init"
    /\ start.last.major = 7
    /\ start.last.minor = 31
    /\ start.last.max_readahead = <<2, 0>>
    /\ start.pc = "done"
    /\ start.session.created
    /\ \A i \in (HeaderSize + 1)..Len(start.replies[1]) :
          start.replies[1][i].byte = 0
    /\ PayloadU32(start.replies[2], 8) = <<2, 0>>

\* C13: during Session::start every frame that is not INIT and arrives
\* before a successful INIT is answered with an EIO error reply, is not
\* delivered to any user handler (start has none: no dispatch task exists),
\* and the handshake loop continues.
C13_EarlyRequest ==
    (start.last.kind \in EarlyOpcodes /\ start.last.io_ok) =>
        /\ start.pc = "receive"
        /\ start.session = NoSession
        /\ tasks = <<>>
        /\ Len(start.replies) = start.received
        /\ FrameIs(LastReply, start.last.unique, 0 - EIO, <<>>)
        /\ Len(LastReply) = HeaderSize

\* two early requests in a row, each answered EIO
C13_Witness ==
    /\ start.received = 2
    /\ start.last.kind = "Getattr"
    /\ start.last.io_ok
    /\ start.pc = "receive"
    /\ FrameError(start.replies[1]) = 0 - EIO
    /\ FrameUnique(start.replies[1]) = 1
    /\ FrameError(start.replies[2]) = 0 - EIO
    /\ FrameUnique(start.replies[2]) = 2

(***************************************************************************)
(* Claims about the server (SpecServer).                                   *)
(***************************************************************************)
\* the handshake ended with the success reply to an accepted INIT
HandshakeDone ==
    /\ start.pc = "done"
    /\ start.session.created
    /\ start.last.kind = "Init"
    /\ Len(start.replies) = start.received
    /\ FrameError(LastReply) = 0
    /\ FrameUnique(LastReply) = start.last.unique
    /\ Len(LastReply) > HeaderSize

\* C14: no request is dispatched to the user filesystem handler before the
\* INIT handshake has completed successfully: the successful INIT reply
\* precedes the first handler invocation (and the first dispatch task).
C14_InitFirst ==
    /\ tasks # <<>> => HandshakeDone
    /\ \A t \in DOMAIN tasks : tasks[t].invoked > 0 => HandshakeDone

\* a handler runs after a handshake of three frames
C14_Witness ==
    /\ start.received = 3
    /\ start.pc = "done"
    /\ \E t \in DOMAIN tasks : tasks[t].invoked = 1 /\ tasks[t].pc = "handler"

\* C20: when receiving a frame reports that the kernel closed the session
\* (ENODEV), the server loop stops spawning dispatch tasks and run_until
\* returns success (Ok(None)), not an error.
C20_ClosedByKernel ==
    [][ /\ server'.cause = ENODEV =>
             (server'.pc = "returned" /\ server'.result = "Ok(None)")
        /\ server.pc = "returned" => Len(tasks') = Len(tasks)
        /\ server.pc = "returned" => server' = server ]_vars

\* the kernel closes the session while a dispatch task is still running
C20_Witness ==
    /\ server.pc = "returned"
    /\ server.cause = ENODEV
    /\ server.result = "Ok(None)"
    /\ Len(tasks) = 2
    /\ tasks[1].pc = "done"
    /\ tasks[2].pc = "handler"

(***************************************************************************)
(* More claims about the dispatcher (Spec).                                *)
(***************************************************************************)
\* C15: once the exited flag is true it stays true, and every request passed
\* to Session::process afterwards is dropped silently: no handler is
\* invoked, no frame is written, and the correlation tables are unchanged.
C15_ExitedDrops ==
    [][ /\ exited => exited'
        /\ \A t \in DOMAIN tasks :
             /\ (exited /\ tasks[t].pc = "check" /\ tasks'[t] # tasks[t]) =>
                  /\ tasks'[t].pc = "done"
                  /\ tasks'[t].result = "dropped_exited"
                  /\ tasks'[t].invoked = 0
                  /\ tasks'[t].frames = <<>>
                  /\ remains' = remains
                  /\ interrupted' = interrupted
                  /\ notify_remains' = notify_remains
                  /\ chans' = chans
                  /\ env' = env
             /\ tasks[t].result = "dropped_exited" => tasks'[t] = tasks[t] ]_vars

\* DESTROY was answered and a later Lookup was dropped
C15_Witness ==
    \E d, t \in DOMAIN tasks :
        /\ tasks[d].kind = "Destroy" /\ tasks[d].pc = "done"
        /\ Len(tasks[d].frames) = 1
        /\ tasks[t].kind = "Lookup"
        /\ tasks[t].result = "dropped_exited"
        /\ tasks[t].frames = <<>>
        /\ exited

\* C16: a request whose opcode is outside the known set is answered with
\* exactly one reply frame with error = -ENOSYS and no payload, and the user
\* handler is not invoked.
C16_UnknownOpcode ==
    \A t \in DOMAIN tasks :
        tasks[t].kind = "Unknown" =>
            /\ tasks[t].invoked = 0
            /\ Len(tasks[t].frames) <= 1
            /\ (tasks[t].pc = "done" /\ tasks[t].result = "Ok") =>
                 /\ Len(tasks[t].frames) = 1
                 /\ FrameIs(tasks[t].frames[1], tasks[t].unique,
                            0 - ENOSYS, <<>>)
                 /\ Len(tasks[t].frames[1]) = HeaderSize

\* scenario S4: the frame of an unknown opcode, answered
C16_Witness ==
    \E t \in DOMAIN tasks :
        /\ tasks[t].kind = "Unknown"
        /\ tasks[t].result = "Ok"
        /\ Len(tasks[t].frames) = 1
        /\ FrameError(tasks[t].frames[1]) = 0 - ENOSYS
        /\ FrameLen(tasks[t].frames[1]) = <<0, 16>>

\* C18: every entry inserted into the pending-interrupts table by
\* on_interrupt() for unique U is removed either when an INTERRUPT for U is
\* processed or when the handler for U completes; after the handler for U
\* has completed without being interrupted, the table holds no entry for U.
C18_EntriesRemoved ==
    \A t \in DOMAIN tasks :
        ( /\ tasks[t].pc = "done"
          /\ tasks[t].invoked > 0
          /\ tasks[t].unique \notin history.interrupts )
        => tasks[t].unique \notin DOMAIN remains

\* the handler registered, was not interrupted and returned; its entry stays
C18_Leaked ==
    \E t \in DOMAIN tasks : \E c \in DOMAIN chans :
        /\ tasks[t].kind = "Lookup"
        /\ tasks[t].pc = "done"
        /\ tasks[t].result = "Ok"
        /\ history.interrupts = {}
        /\ tasks[t].unique \in DOMAIN remains
        /\ remains[tasks[t].unique] = c
        /\ chans[c].rx = "dropped"
        /\ chans[c].tx = "held"

(***************************************************************************)
(* Claims about Connection (SpecConn).                                     *)
(***************************************************************************)
\* C19: over any sequence of open, duplicate, unmount and drop on the
\* connections of one mount, the unmount helper is invoked exactly once, by
\* the root connection and no later than the root's drop; a duplicate never
\* holds the mount point and never invokes unmount, and calling unmount on
\* the root and then dropping it does not invoke the helper a second time.
C19_UnmountOnce ==
    /\ Len(mount.helper) <= 1
    /\ \A i \in DOMAIN mount.helper : mount.helper[i] = Root
    /\ \A c \in DOMAIN mount.conns :
          /\ c # Root => ~mount.conns[c].mountpoint
          /\ c = Root =>
               /\ mount.conns[c].mountpoint <=> (mount.helper = <<>>)
               /\ ~mount.conns[c].alive => mount.helper = <<Root>>

\* the root unmounted once and was dropped while two duplicates live on
C19_Witness ==
    /\ Len(mount.conns) = 3
    /\ ~mount.conns[1].alive
    /\ mount.conns[2].alive /\ mount.conns[2].ioc_clone
    /\ mount.conns[3].alive /\ ~mount.conns[3].ioc_clone
    /\ mount.helper = <<1>>

(***************************************************************************)
(* More claims about the server loop (SpecServer, SpecTasks).              *)
(***************************************************************************)
\* C21: when receiving a frame fails with an OS error other than ENODEV, the
\* server loop terminates and run_until returns that error to its caller
\* (its result is Err, carrying the cause).
C21_ErrorPropagates ==
    (server.cause \notin {0, ENODEV}) =>
        /\ server.pc = "returned"
        /\ server.main_loop = "Err"
        /\ server.result = "Err"

\* receiving failed with EIO while a task was running; the loop ended with
\* the error and run_until returned Ok(None)
C21_Swallowed ==
    /\ server.pc = "returned"
    /\ server.cause = EIO
    /\ server.main_loop = "Err"
    /\ server.result = "Ok(None)"
    /\ \E t \in DOMAIN tasks : tasks[t].pc = "handler"

\* C22: an error returned by Session::process for one request (a handler
\* error or a failed reply write) is confined to that request's dispatch
\* task: no step of a task changes the state of the server loop or another
\* task, and while the loop runs it can still receive and dispatch a frame.
C22_ErrorConfined ==
    [][ /\ \A t \in DOMAIN tasks :
             tasks'[t] # tasks[t] =>
                 /\ server' = server
                 /\ \A u \in DOMAIN tasks : u # t => tasks'[u] = tasks[u]
        /\ (mounted /\ server.pc = "running" /\ Len(tasks) < MaxFrames) =>
               ENABLED ServeReceive ]_vars

\* the first request failed in its handler and its task ended with one
\* frame received; the loop was still running, it received the second request
\* after that, and this one was answered
C22_Witness ==
    /\ Len(tasks) = 2
    /\ tasks[1].pc = "finished"
    /\ tasks[1].result = "Err"
    /\ tasks[1].finished_at = 1
    /\ tasks[2].pc = "finished"
    /\ tasks[2].result = "Ok"
    /\ Len(tasks[2].frames) = 1
    /\ FrameIs(tasks[2].frames[1], tasks[2].unique, 0, <<EntryOut>>)
    /\ server.pc = "running"

\* C23: if the user handler for a request that expects a reply returns an
\* error without having emitted a reply, the framework emits exactly one
\* error reply for that request's unique: when the dispatch task has ended,
\* one frame with a negative error and no payload was written for it.
C23_ErrorReplyOnFailure ==
    \A t \in DOMAIN tasks :
        ( /\ tasks[t].kind \in OpKinds
          /\ tasks[t].pc = "finished"
          /\ tasks[t].invoked > 0
          /\ tasks[t].result = "Err"
          /\ tasks[t].handle = "unused"
          /\ tasks[t].nerr = 0
          /\ ~tasks[t].io_failed )
        => /\ Len(tasks[t].frames) = 1
           /\ FrameUnique(tasks[t].frames[1]) = tasks[t].unique
           /\ FrameError(tasks[t].frames[1]) < 0
           /\ Len(tasks[t].frames[1]) = HeaderSize

\* the Lookup handler returned Err without replying, process returned the
\* error, the spawned task logged it and ended: no frame was written
C23_Unanswered ==
    \E t \in DOMAIN tasks :
        /\ tasks[t].kind = "Lookup"
        /\ tasks[t].pc = "finished"
        /\ tasks[t].invoked = 1
        /\ tasks[t].result = "Err"
        /\ tasks[t].handle = "unused"
        /\ tasks[t].frames = <<>>
        /\ ~tasks[t].io_failed

(***************************************************************************)
(* More claims about the reply encoder (SpecMsg).                          *)
(***************************************************************************)
\* C24: if the assembled frame length (16 + total payload length) does not
\* fit in an unsigned 32-bit integer, send_msg fails locally with an
\* invalid-data error and writes no bytes to the endpoint, whatever the
\* endpoint would have done; a length that fits is never refused.
C24_LengthOverflow ==
    call.op \in {"send_msg", "reply_vectored"} =>
        LET total == WAdd(<<0, 16>>, SumLen(call.data))
        IN  /\ total[1] >= Limb => (ret = "InvalidData" /\ dest = <<>>)
            /\ total[1] < Limb  => ret # "InvalidData"

\* payloads of 2^32 - 19 and 3 bytes make a frame of 2^32 bytes, one byte
\* more than fits; the endpoint was ready to take it
C24_Witness ==
    /\ call.op = "send_msg"
    /\ Len(call.data) = 2
    /\ SumLen(call.data) = <<Limb - 1, Limb - 16>>
    /\ call.io_ok
    /\ ret = "InvalidData"
    /\ dest = <<>>

(***************************************************************************)
(* Claims about the default shutdown signal (SpecSignal).                  *)
(***************************************************************************)
ShutdownKinds == {SIGHUP, SIGINT, SIGTERM}

Delivered == {signals.delivered[i] : i \in DOMAIN signals.delivered}

\* the first SIGHUP, SIGINT or SIGTERM delivered (0 when there is none)
FirstShutdown ==
    LET at == {i \in DOMAIN signals.delivered :
                  signals.delivered[i] \in ShutdownKinds}
    IN  IF at = {} THEN 0
        ELSE signals.delivered[CHOOSE i \in at : \A j \in at : i <= j]

\* C25 as stated: while the server runs with the default shutdown signal,
\* any number of SIGPIPE deliveries leave the server running, and the first
\* SIGHUP, SIGINT or SIGTERM makes run_until complete with that signal's
\* value.
C25_FirstSignal ==
    /\ Delivered \subseteq {SIGPIPE} =>
          (signals.output = 0 /\ server.result # "Ok(Some)")
    /\ signals.output # 0 => signals.output = FirstShutdown
    /\ server.result = "Ok(Some)" => signals.output = FirstShutdown

\* C25, amended: SIGPIPE deliveries leave the server running, and after a
\* SIGHUP, SIGINT or SIGTERM run_until can complete, with the value of one
\* of the shutdown signals delivered by then; it is the first one whenever
\* signals of one kind only were delivered.
C25_ShutdownSignal ==
    /\ Delivered \subseteq {SIGPIPE} =>
          (signals.output = 0 /\ server.result # "Ok(Some)")
    /\ signals.output # 0 =>
          (signals.output \in ShutdownKinds \cap Delivered)
    /\ server.result = "Ok(Some)" => signals.output # 0
    /\ (signals.output # 0 /\ Cardinality(Delivered \cap ShutdownKinds) = 1)
          => signals.output = FirstShutdown
    /\ ( /\ server.pc = "running"
         /\ Delivered \cap ShutdownKinds # {} )
          => (ENABLED SigPoll \/ ENABLED ServeShutdownSignal)

\* two SIGPIPE were swallowed, then SIGINT ended run_until with its value
C25_Witness ==
    /\ signals.delivered = <<SIGPIPE, SIGPIPE, SIGINT>>
    /\ signals.fut[SIGPIPE] = "terminated"
    /\ signals.output = SIGINT
    /\ server.pc = "returned"
    /\ server.result = "Ok(Some)"

(***************************************************************************)
(* More claims about the dispatcher (Spec, SpecNotify).                    *)
(***************************************************************************)
\* C26: processing a DESTROY request on a session that has not exited sets
\* the exited flag to true and writes exactly one success reply with no
\* payload (len = 16, error = 0) for the DESTROY unique; no user handler is
\* invoked.  (The reply is missing only when the device refuses the write.)
C26_Destroy ==
    \A t \in DOMAIN tasks :
        tasks[t].kind = "Destroy" =>
            /\ tasks[t].invoked = 0
            /\ Len(tasks[t].frames) <= 1
            /\ tasks[t].pc = "destroy_reply" => exited
            /\ (tasks[t].pc = "done" /\ tasks[t].result \in {"Ok", "Err"}) =>
                 /\ exited
                 /\ tasks[t].frames = <<>> <=> tasks[t].io_failed
            /\ tasks[t].frames # <<>> =>
                 /\ FrameIs(tasks[t].frames[1], tasks[t].unique, 0, <<>>)
                 /\ FrameLen(tasks[t].frames[1]) = <<0, 16>>
                 /\ Len(tasks[t].frames[1]) = HeaderSize

\* a DESTROY arrived after a Lookup on a running session and was answered
C26_Witness ==
    \E t \in DOMAIN tasks :
        /\ t > 1
        /\ tasks[t].kind = "Destroy"
        /\ tasks[t].pc = "done"
        /\ tasks[t].result = "Ok"
        /\ Len(tasks[t].frames) = 1
        /\ FrameError(tasks[t].frames[1]) = 0
        /\ FrameUnique(tasks[t].frames[1]) = tasks[t].unique
        /\ exited
        /\ tasks[1].kind = "Lookup" /\ tasks[1].invoked = 1

\* C27: in notify_retrieve the slot for the allocated notify-unique is
\* inserted into the pending-retrieves table before the NOTIFY_RETRIEVE frame
\* is written: once the frame is out, the slot is registered until a
\* NOTIFY_REPLY takes it, so in every interleaving the NOTIFY_REPLY for that
\* unique finds its slot registered.
C27_SlotBeforeFrame ==
    /\ \A r \in DOMAIN retrs :
          retrs[r].frames # <<>> =>
              \/ /\ retrs[r].nu \in DOMAIN notify_remains
                 /\ notify_remains[retrs[r].nu] = r
              \/ retrs[r].got # NoGot
    /\ \A t \in DOMAIN tasks :
          (tasks[t].kind = "NotifyReply" /\ tasks[t].pc # "check") =>
              \/ tasks[t].slot_owner # 0
              \/ \E o \in DOMAIN tasks :
                    /\ o # t
                    /\ tasks[o].kind = "NotifyReply"
                    /\ tasks[o].unique = tasks[t].unique
                    /\ tasks[o].pc = "done"
                    /\ tasks[o].result = "Ok"

\* the second retrieve wrote its frame while the first was still between
\* allocation and insertion; its NOTIFY_REPLY found the slot and took it
C27_Witness ==
    \E t \in DOMAIN tasks :
        /\ tasks[t].kind = "NotifyReply"
        /\ tasks[t].unique = retrs[2].nu
        /\ tasks[t].slot_owner = 2
        /\ tasks[t].pc = "done"
        /\ tasks[t].result = "Ok"
        /\ retrs[2].got = <<tasks[t].offset, tasks[t].data>>
        /\ retrs[2].nu \notin DOMAIN notify_remains
        /\ retrs[1].pc = "alloc"

(***************************************************************************)
(* Claims about FORGET and BATCH_FORGET (SpecForget).                      *)
(***************************************************************************)
\* the frames of task t that the session wrote itself: all but those of the
\* handler's own reply_err calls
SessionFrames(t) == Len(tasks[t].frames) - tasks[t].nerr

\* C28: for a Forget or BatchForget request the session itself writes no
\* reply frame, and the user handler is invoked exactly once with all forget
\* records of the frame (one record, of the header's nodeid, for Forget; the
\* whole array, in its order, for BatchForget).
C28_Forget ==
    \A t \in DOMAIN tasks :
        tasks[t].kind \in ForgetKinds =>
            /\ SessionFrames(t) <= 0
            /\ tasks[t].invoked <= 1
            /\ tasks[t].pc \in {"check", "dispatch"} => tasks[t].invoked = 0
            /\ (tasks[t].pc = "handler" \/ tasks[t].result \in {"Ok", "Err"}) =>
                 /\ tasks[t].invoked = 1
                 /\ tasks[t].op.name = "Forget"
                 /\ tasks[t].kind = "Forget" =>
                      /\ Len(tasks[t].op.forgets) = 1
                      /\ tasks[t].op.forgets[1].nodeid = tasks[t].nodeid
                      /\ tasks[t].op.forgets[1].nlookup = tasks[t].arg.nlookup
                 /\ tasks[t].kind = "BatchForget" =>
                      /\ Len(tasks[t].op.forgets) = Len(tasks[t].arg)
                      /\ \A i \in DOMAIN tasks[t].arg :
                            /\ tasks[t].op.forgets[i].nodeid
                                 = tasks[t].arg[i].nodeid
                            /\ tasks[t].op.forgets[i].nlookup
                                 = tasks[t].arg[i].nlookup

\* a BATCH_FORGET of three records and a FORGET were each handed to the
\* handler once and returned; nothing was written
C28_Witness ==
    \E b, f \in DOMAIN tasks :
        /\ tasks[b].kind = "BatchForget"
        /\ Len(tasks[b].arg) = 3
        /\ tasks[b].pc = "done" /\ tasks[b].result = "Ok"
        /\ tasks[b].invoked = 1
        /\ Len(tasks[b].op.forgets) = 3
        /\ tasks[b].op.forgets[3] = [nodeid |-> 3, nlookup |-> 2]
        /\ tasks[b].frames = <<>>
        /\ tasks[f].kind = "Forget"
        /\ tasks[f].pc = "done" /\ tasks[f].result = "Ok"
        /\ tasks[f].op.forgets = <<[nodeid |-> 3, nlookup |-> 4]>>
        /\ tasks[f].frames = <<>>

(***************************************************************************)
(* Claims about the frames the session handles itself (SpecNotify).        *)
(***************************************************************************)
\* C29: Interrupt and NotifyReply frames are handled inside the session
\* only: processing either of them never invokes the user filesystem
\* handler and never writes a reply frame.
C29_HandledLocally ==
    \A t \in DOMAIN tasks :
        tasks[t].kind \in {"Interrupt", "NotifyReply"} =>
            /\ tasks[t].invoked = 0
            /\ tasks[t].op.name = "none"
            /\ tasks[t].frames = <<>>
            /\ tasks[t].pc \in {"check", "dispatch", "done"}
            /\ tasks[t].result \in {"running", "Ok", "dropped_interrupted"}

\* an INTERRUPT that signalled a waiting handler and a NOTIFY_REPLY that
\* completed a retrieve were both processed to the end
C29_Witness ==
    \E i, n \in DOMAIN tasks :
        /\ tasks[i].kind = "Interrupt"
        /\ tasks[i].pc = "done" /\ tasks[i].result = "Ok"
        /\ \E c \in DOMAIN chans :
              chans[c].unique = tasks[i].arg_unique /\ chans[c].sent = 1
        /\ tasks[n].kind = "NotifyReply"
        /\ tasks[n].pc = "done" /\ tasks[n].result = "Ok"
        /\ tasks[n].slot_owner # 0
        /\ retrs[tasks[n].slot_owner].got = <<tasks[n].offset, tasks[n].data>>
        /\ tasks[i].frames = <<>> /\ tasks[n].frames = <<>>

(***************************************************************************)
(* Claims about SETLK / SETLKW (SpecLock).                                 *)
(***************************************************************************)
\* the flock operation the claim names for a lock type and a sleep flag
FlockOpOf(typ, sleep) ==
    (CASE typ = F_RDLCK -> LOCK_SH
       [] typ = F_WRLCK -> LOCK_EX
       [] typ = F_UNLCK -> LOCK_UN)
    + (IF sleep THEN 0 ELSE LOCK_NB)

\* C30: a Setlk/Setlkw request with FUSE_LK_FLOCK set is delivered to the
\* handler as Flock, never as Setlk, with op = LOCK_SH, LOCK_EX or LOCK_UN
\* for lock type F_RDLCK, F_WRLCK or F_UNLCK, with LOCK_NB added exactly when
\* the request is non-sleeping; any other lock type gets a single EIO reply
\* and the handler is not invoked.  Without FUSE_LK_FLOCK the request is
\* delivered as Setlk.
C30_SetlkFlock ==
    \A t \in DOMAIN tasks :
        ( /\ tasks[t].kind = "Setlk"
          /\ \/ tasks[t].pc = "handler"
             \/ tasks[t].pc = "done" /\ tasks[t].result \in {"Ok", "Err"} )
        => LET a     == tasks[t].arg
               flock == a.lk_flags \in {1, 3}
               valid == a.typ \in {F_RDLCK, F_WRLCK, F_UNLCK}
           IN  /\ (flock /\ valid) =>
                    /\ tasks[t].invoked = 1
                    /\ tasks[t].op.name = "Flock"
                    /\ tasks[t].op.op = FlockOpOf(a.typ, a.sleep)
               /\ (flock /\ ~valid) =>
                    /\ tasks[t].invoked = 0
                    /\ tasks[t].pc = "done"
                    /\ Len(tasks[t].frames) <= 1
                    /\ tasks[t].frames = <<>> <=> tasks[t].io_failed
                    /\ tasks[t].frames # <<>> =>
                         FrameIs(tasks[t].frames[1], tasks[t].unique,
                                 0 - EIO, <<>>)
               /\ ~flock =>
                    /\ tasks[t].invoked = 1
                    /\ tasks[t].op.name = "Setlk"
                    /\ tasks[t].op.typ = a.typ
                    /\ tasks[t].op.sleep = a.sleep

\* a non-sleeping SETLK with FUSE_LK_FLOCK among its flags and a write lock
\* reached the handler as Flock with LOCK_EX | LOCK_NB
C30_Witness ==
    \E t \in DOMAIN tasks :
        /\ tasks[t].kind = "Setlk"
        /\ tasks[t].arg = [lk_flags |-> 3, typ |-> F_WRLCK, sleep |-> FALSE]
        /\ tasks[t].pc = "done"
        /\ tasks[t].invoked = 1
        /\ tasks[t].op = [name |-> "Flock", op |-> 6]
        /\ Len(tasks[t].frames) = 1

(***************************************************************************)
(* Claims about the write calls of the encoder (SpecMsg).                  *)
(***************************************************************************)
\* C31: every outbound frame is emitted by exactly one successful vectored
\* write whose slice vector is the header followed by all payload slices; a
\* frame is either written whole by that one call or the send fails, and the
\* header and the payload are never written by separate write calls.
C31_OneVectoredWrite ==
    call.op = "send_msg" =>
        /\ Len(call.writes) <= 1
        /\ \A i \in DOMAIN call.writes :
              LET w == call.writes[i]
              IN  /\ Len(w.vec) = 1 + Len(call.data)
                  /\ Len(w.vec[1]) = HeaderSize
                  /\ FrameUnique(w.vec[1]) = call.unique
                  /\ FrameError(w.vec[1]) = call.error
                  /\ SubSeq(w.vec, 2, Len(w.vec)) = call.data
                  /\ w.ok => dest = Concat(w.vec)
        /\ ret = "Ok" <=> (Len(call.writes) = 1 /\ call.writes[1].ok)
        /\ ret # "Ok" => dest = <<>>

\* a frame of two payload slices went out in one write of three slices
C31_Witness ==
    /\ call.op = "send_msg"
    /\ call.data = <<Bytes(<<104, 101>>), Bytes(<<108, 108, 111>>)>>
    /\ ret = "Ok"
    /\ Len(call.writes) = 1
    /\ Len(call.writes[1].vec) = 3
    /\ Len(dest) = HeaderSize + 5

(***************************************************************************)
(* Claims about the notifications (SpecFire, SpecNotify).                  *)
(***************************************************************************)
FireKinds == {"inval_inode", "inval_entry", "delete", "store"}

\* the notification code of each method and the bytes that follow its struct
FireCode(c) ==
    CASE c.op = "inval_inode" -> 2
      [] c.op = "inval_entry" -> 3
      [] c.op = "store" -> 4
      [] c.op = "delete" -> 6

FireTail(c) ==
    CASE c.op = "inval_inode" -> <<0, 0>>
      [] c.op \in {"inval_entry", "delete"} -> SliceLen(c.name)
      [] c.op = "store" -> SumLen(c.data)

FireStruct(c) == IF c.op = "delete" THEN 24
                 ELSE IF c.op = "inval_entry" THEN 16 ELSE 24

----------------------------------------------------------------------------
\* C33: in Notifier::retrieve the offset delivered with the NOTIFY_REPLY
\* always equals the offset passed to the retrieve call (0 here), so the
\* equality assertion never fails, whatever the kernel replies.
C33_OffsetEchoed ==
    \A r \in DOMAIN retrs :
        /\ retrs[r].got # NoGot => retrs[r].got[1] = 0
        /\ retrs[r].pc # "panic"

\* a retrieve made with offset 0 was handed offset 8 and its assertion failed
C33_AssertionFails ==
    \E r \in DOMAIN retrs :
        /\ retrs[r].got # NoGot
        /\ retrs[r].got[1] = 8
        /\ retrs[r].pc = "panic"

----------------------------------------------------------------------------
\* C34: an Interrupt future obtained from on_interrupt() for unique U
\* resolves only after an INTERRUPT frame naming U has been processed; it
\* never resolves spuriously, in particular not when on_interrupt() is called
\* again for the same unique or when the sender is dropped.
C34_NoSpuriousInterrupt ==
    \A c \in DOMAIN chans :
        chans[c].rx = "resolved"
        => /\ chans[c].sent = 1
           /\ \E t \in DOMAIN tasks :
                 /\ tasks[t].kind = "Interrupt"
                 /\ tasks[t].arg_unique = chans[c].unique
                 /\ tasks[t].pc = "done"

\* a future resolved although no INTERRUPT frame was ever received: a second
\* on_interrupt() for the same unique dropped its sender
C34_ResolvedBySecondCall ==
    \E c \in DOMAIN chans :
        /\ chans[c].rx = "resolved"
        /\ chans[c].tx = "dropped"
        /\ chans[c].sent = 0
        /\ \A t \in DOMAIN tasks : tasks[t].kind # "Interrupt"
        /\ \E d \in DOMAIN chans :
              d > c /\ chans[d].unique = chans[c].unique

----------------------------------------------------------------------------
\* the frame of task t names no entry: an INTERRUPT whose argument has no
\* entry in the pending-interrupts table, a NOTIFY_REPLY whose unique has no
\* entry in the pending-retrieves table
NamesNoEntry(t) ==
    \/ tasks[t].kind = "Interrupt" /\ tasks[t].arg_unique \notin DOMAIN remains
    \/ tasks[t].kind = "NotifyReply"
         /\ tasks[t].unique \notin DOMAIN notify_remains

\* C35: an INTERRUPT frame naming a unique with no pending-interrupts entry,
\* or a NOTIFY_REPLY frame whose unique has no pending-retrieves entry, is a
\* no-op: the pending-interrupts table, the interrupted set, the
\* pending-retrieves table and the exited flag are unchanged, nothing is
\* signalled and no frame is written.
C35_NoEntryNoOp ==
    [][ \A t \in DOMAIN tasks :
          (NamesNoEntry(t) /\ tasks'[t].pc # tasks[t].pc)
          => /\ remains' = remains
             /\ interrupted' = interrupted
             /\ notify_remains' = notify_remains
             /\ exited' = exited
             /\ chans' = chans
             /\ retrs' = retrs
             /\ tasks'[t].frames = <<>> ]_vars

\* a NOTIFY_REPLY nobody asked for took the unique of an interrupted request
\* out of the interrupted set
C35_InterruptedEntryTaken ==
    \E t \in DOMAIN tasks :
        /\ tasks[t].kind = "NotifyReply"
        /\ tasks[t].result = "dropped_interrupted"
        /\ tasks[t].slot_owner = 0
        /\ tasks[t].unique \in history.interrupts
        /\ tasks[t].unique \notin interrupted
        /\ \A r \in DOMAIN retrs : retrs[r].pc = "idle"

----------------------------------------------------------------------------
\* C36: on a session that has not exited, a NOTIFY_REPLY frame whose unique
\* matches a pending retrieve always completes that retrieve, whatever the
\* interrupted set holds: the unique of a kernel request recorded there never
\* causes a NOTIFY_REPLY of the same number to be dropped.
C36_ReplyNotDropped ==
    \A t \in DOMAIN tasks :
        (tasks[t].kind = "NotifyReply" /\ tasks[t].slot_owner # 0)
        => /\ tasks[t].result # "dropped_interrupted"
           /\ tasks[t].pc = "done" => tasks[t].result = "Ok"

\* the NOTIFY_REPLY of a pending retrieve was dropped because an interrupted
\* kernel request had the same number, and the retrieve is left waiting
C36_TakenForRequest ==
    \E t, q \in DOMAIN tasks :
        /\ tasks[t].kind = "NotifyReply"
        /\ tasks[t].result = "dropped_interrupted"
        /\ tasks[t].slot_owner # 0
        /\ tasks[q].kind \in OpKinds
        /\ tasks[q].unique = tasks[t].unique
        /\ tasks[q].unique \in history.interrupts
        /\ ~exited
        /\ retrs[tasks[t].slot_owner].nu = tasks[t].unique
        /\ retrs[tasks[t].slot_owner].got = NoGot

----------------------------------------------------------------------------
\* C37: a write on one Channel clone is never blocked indefinitely by a read
\* that is pending (no frame available) on another clone: whenever the
\* descriptor is writable, the write eventually acquires the shared lock and
\* completes (or its future or its clone is dropped).
C37_WriteCompletes ==
    \A c \in 1..MaxClones :
        (clones[c].op = "write") ~> (clones[c].op = "idle")

\* a read returned Pending with the permit still held by its clone, and a
\* write on another clone waits for the permit
C37_ReadPendingHoldsLock ==
    \E a, b \in DOMAIN clones :
        /\ clones[a].op = "read" /\ clones[a].stage = "acquire"
        /\ clones[a].permit
        /\ clones[b].op = "write" /\ clones[b].stage = "acquire"
        /\ ~clones[b].permit
        /\ semaphore = 0

----------------------------------------------------------------------------
\* C38: a Channel clone holds the shared permit only while one of its I/O
\* operations is in progress: after an operation completes, after its future
\* is abandoned while pending, and after the clone is dropped, the clone
\* holds no permit and another clone can acquire the lock.
C38_PermitOnlyInOperation ==
    \A c \in DOMAIN clones :
        clones[c].op = "idle"
        => /\ ~clones[c].permit
           /\ (\A o \in DOMAIN clones : clones[o].op = "idle") => semaphore = 1

\* the future of a pending operation was dropped and its clone, now idle,
\* still holds the permit another clone is waiting for
C38_AbandonedKeepsPermit ==
    \E a, b \in DOMAIN clones :
        /\ clones[a].alive /\ clones[a].op = "idle" /\ clones[a].permit
        /\ clones[b].alive /\ clones[b].stage = "acquire" /\ ~clones[b].permit
        /\ semaphore = 0

----------------------------------------------------------------------------
\* C39: if writing the NOTIFY_RETRIEVE frame fails, notify_retrieve returns
\* the error and the pending-retrieves table holds no entry for the unique it
\* allocated; every entry of the table belongs to a retrieve whose frame was
\* written (or is being written by a call still running) and whose awaiter
\* exists.
C39_NoEntryAfterFailedWrite ==
    /\ \A r \in DOMAIN retrs :
          retrs[r].pc = "failed"
          => /\ retrs[r].frames = <<>>
             /\ retrs[r].nu \notin DOMAIN notify_remains
    /\ \A n \in DOMAIN notify_remains :
          retrs[notify_remains[n]].pc \in {"inserted", "waiting"}

\* notify_retrieve returned the error of the write and its slot is still in
\* the table, with no frame sent and no awaiter
C39_EntryOfFailedCall ==
    \E r \in DOMAIN retrs :
        /\ retrs[r].pc = "failed"
        /\ retrs[r].frames = <<>>
        /\ retrs[r].nu \in DOMAIN notify_remains
        /\ notify_remains[retrs[r].nu] = r

----------------------------------------------------------------------------
\* C40: after the reply to DESTROY has been written, no reply frame for any
\* other request is written, in any interleaving of dispatch tasks that were
\* already running when DESTROY was processed.
C40_NothingAfterDestroyReply ==
    [][ DestroyAnswered
        => \A t \in DOMAIN tasks : tasks'[t].frames = tasks[t].frames ]_vars

\* a Lookup that was past the exited check when DESTROY was processed had its
\* reply written after the reply to DESTROY
C40_ReplyAfterDestroy ==
    \E t, d \in DOMAIN tasks :
        /\ tasks[d].kind = "Destroy" /\ tasks[d].result = "Ok"
        /\ Len(tasks[d].frames) = 1
        /\ tasks[t].kind = "Lookup" /\ t < d
        /\ t \in history.late
        /\ Len(tasks[t].frames) = 1
        /\ FrameUnique(tasks[t].frames[1]) = tasks[t].unique

====
